---- MODULE Spec2Model ----
(***************************************************************************)
(* Model of the CPH50 charge controller worker (src/src/index.ts).         *)
(*                                                                         *)
(* One worker invocation at a time is modelled as a small-step state       *)
(* machine: every await of the TypeScript code (a vendor request, a        *)
(* backoff delay, the parse of the response body, the alert request) ends  *)
(* one action.  The vendor, the mail service, the clock and the deployed   *)
(* configuration are the environment: their answers are drawn from small   *)
(* sets.                                                                   *)
(***************************************************************************)
EXTENDS Integers, Sequences, FiniteSets, TLC

(***************************************************************************)
(* Program constants                                                       *)
(***************************************************************************)
MAX_ATTEMPTS == 3

BASE_DELAY_MS == 2000

\* the hour the scheduled handler compares against (index.ts:166)
TargetHour == 6

\* the two hours of the cron expression "0 13,14 * * *"
CronHours == {13, 14}

UtcHours == 0 .. 23

(***************************************************************************)
(* Civil time of America/Los_Angeles.  A calendar day (UTC) is one of four *)
(* kinds: all standard time, all daylight time, or one of the two          *)
(* transition days.  The transitions happen at 02:00 local time, that is   *)
(* 10:00 UTC in spring (PST -> PDT) and 09:00 UTC in autumn (PDT -> PST).  *)
(***************************************************************************)
DayKinds == {"standard", "daylight", "springForward", "fallBack"}

UtcOffset(d, h) ==
    CASE d = "standard" -> 0 - 8
      [] d = "daylight" -> 0 - 7
      [] d = "springForward" -> IF h < 10 THEN 0 - 8 ELSE 0 - 7
      [] d = "fallBack" -> IF h < 9 THEN 0 - 7 ELSE 0 - 8

CivilHour(d, h) == (h + UtcOffset(d, h) + 24) % 24

(***************************************************************************)
(* Intl.DateTimeFormat("en-US", {hour: "numeric", hour12: false}).format   *)
(* yields the hour as decimal digits.  Engines differ in two ways: the     *)
(* hour cycle chosen for hour12:false (h23 prints midnight as 0, h24 as    *)
(* 24) and whether a leading zero is printed.  The text is modelled as the *)
(* sequence of its digits.                                                 *)
(***************************************************************************)
HourFormats == [cycle : {"h23", "h24"}, twoDigit : BOOLEAN]

FormatHour(f, hr) ==
    LET shown == IF f.cycle = "h24" /\ hr = 0 THEN 24 ELSE hr
    IN  IF shown >= 10 \/ f.twoDigit
          THEN <<shown \div 10, shown % 10>>
          ELSE <<shown>>

\* Number(text) for a text of decimal digits
RECURSIVE ToNumber(_)
ToNumber(digits) ==
    IF digits = <<>> THEN 0
    ELSE 10 * ToNumber(SubSeq(digits, 1, Len(digits) - 1)) + digits[Len(digits)]

\* getLocalHour at the instant (day d, UTC hour h) on an engine formatting as f
getLocalHour(f, d, h) == ToNumber(FormatHour(f, CivilHour(d, h)))

\* faulty gates: none at all, and "not after 6" in place of "at 6"
GateMissing(hour) == TRUE

GateAtMost(hour) == hour <= TargetHour

\* the gate of the scheduled handler: "if (hour !== 6) return"
GateOpen(hour) == hour = TargetHour

(***************************************************************************)
(* HTTP responses.  A body is a record: json says whether the text parses  *)
(* as JSON, the next six fields are the fields of AuthResponse the code    *)
(* reads ("" or 0: absent), text is the raw text as the sequence of the     *)
(* words that matter in it (the values it carries).                        *)
(***************************************************************************)
MkBody(j, u, i1, i2, c, a1, a2, t) ==
    [json |-> j, userid |-> u, uid |-> i1, uuid |-> i2,
     coulomb |-> c, access |-> a1, auth |-> a2, text |-> t]

BodyFull == MkBody(TRUE, "U1", 0, 0, "T1", "", "", <<"U1", "T1">>)

BodyNoToken == MkBody(TRUE, "U1", 0, 0, "", "", "", <<"U1">>)

BodyNoUser == MkBody(TRUE, "", 0, 0, "T1", "", "", <<"T1">>)

BodyNotJson == MkBody(FALSE, "", 0, 0, "", "", "", <<"html">>)

BodyText(t) == MkBody(FALSE, "", 0, 0, "", "", "", t)

AuthBodies == {BodyFull, BodyNoToken, BodyNoUser, BodyNotJson}

\* what the vendor may answer to start_session: a plain text, or a text that
\* echoes the coulomb_sess value of the request
StartBodies == {BodyText(<<"B0">>), BodyText(<<"coulomb_sess", "T1">>)}

OkStatuses == {200}

FailStatuses == {401, 500}

\* Response.ok
Ok(res) == res.status >= 200 /\ res.status <= 299

NullResponse == [status |-> 0, body |-> BodyText(<<>>)]

NoError == [kind |-> "none", id |-> "", status |-> 0]

\* an error thrown by fetch (transport level)
TransportError(e) == [kind |-> "transport", id |-> e, status |-> 0]

\* new Error(`HTTP ${res.status}`)
HttpError(s) == [kind |-> "http", id |-> "", status |-> s]

ErrorIds == {"E1", "E2"}

\* what one call of requestFn does: throw err, or resolve to res
Threw(e) == [threw |-> TRUE, err |-> TransportError(e), res |-> NullResponse]

Resolved(s, b) == [threw |-> FALSE, err |-> NoError, res |-> [status |-> s, body |-> b]]

Outcomes(bodies) ==
    {Threw(e) : e \in ErrorIds}
      \cup {Resolved(s, b) : s \in OkStatuses \cup FailStatuses, b \in bodies}

(***************************************************************************)
(* fetchWithRetry (index.ts:100-120).  fr holds its three locals; null is  *)
(* a cleared has* flag.  LoopBody is one iteration of the while loop with  *)
(* the request's outcome o, up to the next await or to the function's end: *)
(* ctl says how it ends ("return", "throw", or "delay": the loop awaits    *)
(* the backoff delay), val / err are what is returned / thrown.            *)
(***************************************************************************)
FreshRetry ==
    [attempt |-> 0, hasError |-> FALSE, lastError |-> NoError,
     hasResponse |-> FALSE, lastResponse |-> NullResponse]

\* faulty backoff: the 4s/8s the exponent `attempt` would give
BackoffLate(attempt) == BASE_DELAY_MS * 2 ^ attempt

\* faulty backoff: no growth
BackoffConstant(attempt) == BASE_DELAY_MS

\* the delay awaited after `attempt` attempts have failed
Backoff(attempt) == BASE_DELAY_MS * 2 ^ (attempt - 1)

\* lines 106-112: the try block around requestFn
Record(f, o) ==
    IF o.threw
      THEN [f EXCEPT !.hasError = TRUE, !.lastError = o.err]
      ELSE [f EXCEPT !.hasResponse = TRUE, !.lastResponse = o.res,
                     !.hasError = TRUE, !.lastError = HttpError(o.res.status)]

\* faulty bound: the loop gives up one attempt early
ExhaustedEarly(attempt) == attempt >= MAX_ATTEMPTS - 1

\* faulty bound: the loop allows one attempt more
ExhaustedLate(attempt) == attempt >= MAX_ATTEMPTS + 1

\* line 114: "if (attempt >= MAX_ATTEMPTS) break"
Exhausted(attempt) == attempt >= MAX_ATTEMPTS

\* faulty end of the loop: the last error is thrown although a response is held
AfterLoopThrows(f) ==
    [ctl |-> "throw", fr |-> f, val |-> NullResponse, err |-> f.lastError]

\* lines 117-119: after the loop
AfterLoop(f) ==
    IF f.hasResponse
      THEN [ctl |-> "return", fr |-> f, val |-> f.lastResponse, err |-> NoError]
      ELSE [ctl |-> "throw", fr |-> f, val |-> NullResponse, err |-> f.lastError]

\* faulty loop: a success response is accepted only if it carries a user id
\* and a session token, and retried otherwise
StopsWhenComplete(o) ==
    ~o.threw /\ Ok(o.res) /\ o.res.body.userid # "" /\ o.res.body.coulomb # ""

\* faulty loop: no early return
StopsNever(o) == FALSE

\* line 107: "if (res.ok) return res"
StopsAt(o) == ~o.threw /\ Ok(o.res)

LoopBody(f, o) ==
    IF StopsAt(o)
      THEN [ctl |-> "return", fr |-> f, val |-> o.res, err |-> NoError]
      ELSE LET g == [Record(f, o) EXCEPT !.attempt = @ + 1]
           IN  IF Exhausted(g.attempt)
                 THEN AfterLoop(g)
                 ELSE [ctl |-> "delay", fr |-> g, val |-> NullResponse, err |-> NoError]

(***************************************************************************)
(* performChargeFlow helpers                                               *)
(***************************************************************************)
\* line 51: authJson.userid || String(authJson.user?.id || authJson.user?.user_id || "")
UserIdOf(b) ==
    IF b.userid # "" THEN b.userid
    ELSE IF b.uid # 0 THEN ToString(b.uid)
    ELSE IF b.uuid # 0 THEN ToString(b.uuid)
    ELSE ""

\* faulty lookup: access_token is looked at before sessionStorage.coulomb_sess
TokenOfAccessFirst(b) ==
    IF b.access # "" THEN b.access
    ELSE IF b.coulomb # "" THEN b.coulomb
    ELSE b.auth

\* line 52: sessionStorage?.coulomb_sess || access_token || auth_token || ""
TokenOf(b) ==
    IF b.coulomb # "" THEN b.coulomb
    ELSE IF b.access # "" THEN b.access
    ELSE b.auth

\* faulty check: && in place of ||
AuthIncompleteBoth(u, t) == u = "" /\ t = ""

\* line 54: "if (!userId || !sessionToken)"
AuthIncomplete(u, t) == u = "" \/ t = ""

\* faulty checks of the start_session response: none, and inverted
StartFailedNever(res) == FALSE

StartFailedInverted(res) == Ok(res)

\* line 81: "if (!startRes.ok)"
StartFailed(res) == ~Ok(res)

\* the error texts of the four failure branches, as records of their parts
NoMsg ==
    [kind |-> "none", status |-> 0, text |-> <<>>, err |-> NoError,
     userid |-> "", hasCoulomb |-> FALSE]

MsgAuthMissing(b) ==
    [NoMsg EXCEPT !.kind = "Auth missing user_id or session token",
                  !.userid = b.userid, !.hasCoulomb = (b.coulomb # "")]

\* a body that is not JSON makes authRes.json() throw a SyntaxError
JsonError == [kind |-> "syntax", id |-> "", status |-> 0]

MsgAuthError(e) == [NoMsg EXCEPT !.kind = "Auth error", !.err = e]

\* faulty message: the response body is left out
MsgStartFailedNoBody(res) ==
    [NoMsg EXCEPT !.kind = "Start session failed", !.status = res.status]

MsgStartFailed(res) ==
    [NoMsg EXCEPT !.kind = "Start session failed",
                  !.status = res.status, !.text = res.body.text]

MsgStartError(e) == [NoMsg EXCEPT !.kind = "Start session error", !.err = e]

\* String(err), as words
ErrorWords(e) ==
    CASE e.kind = "transport" -> <<"Error", e.id>>
      [] e.kind = "http" -> <<"Error", "HTTP", ToString(e.status)>>
      [] e.kind = "syntax" -> <<"SyntaxError">>
      [] e.kind = "mail" -> <<"Error", "mail">>
      [] OTHER -> <<>>

\* the error string of a message, as the sequence of its words (the
\* template strings of lines 55, 61, 83 and 91)
ErrorText(m) ==
    CASE m.kind = "Auth missing user_id or session token" ->
             <<m.kind, "Got:", m.userid, ToString(m.hasCoulomb)>>
      [] m.kind = "Auth error" -> <<m.kind>> \o ErrorWords(m.err)
      [] m.kind = "Start session failed" -> <<m.kind, ToString(m.status)>> \o m.text
      [] m.kind = "Start session error" -> <<m.kind>> \o ErrorWords(m.err)
      [] OTHER -> <<>>

\* env.CP_USERNAME and env.CP_PASSWORD of the deployment
CP_USERNAME == "driver@example.org"

CP_PASSWORD == "hunter2"

ResultOk == [ok |-> TRUE, error |-> NoMsg]

ResultFail(m) == [ok |-> FALSE, error |-> m]

NoResult == [ok |-> FALSE, error |-> NoMsg]

\* faulty status: 200 whatever the result
ChargeStatusOk(r) == 200

\* the status of the Response that POST /charge builds from the result
ChargeStatus(r) == IF r.ok THEN 200 ELSE 500

\* the Responses of the fetch handler: JSON.stringify(result) with its status
\* (lines 181-184), or a JSON object with an error text (lines 175-178, 299-302)
NoHttp ==
    [status |-> 0, kind |-> "none", result |-> NoResult, error |-> "",
     words |-> <<>>, chargers |-> <<>>]

ResultResponse(r) ==
    [NoHttp EXCEPT !.status = ChargeStatus(r), !.kind = "result", !.result = r]

ErrorResponse(st, e) ==
    [NoHttp EXCEPT !.status = st, !.kind = "error", !.error = e]

\* faulty check: the station id is never required
StationMissingNever(id) == FALSE

\* faulty guard: /charge refuses whatever CP_STATION_ID holds
StationMissingAlways(id) == TRUE

\* line 174: "if (!env.CP_STATION_ID)"
StationMissing(id) == id = ""

\* the instants (UTC hours) at which requests reach the fetch handler
RequestHours == {13, 14}

AlertSubject == "URGENT: EV Charging Failed"

AlertEmail == "owner@example.org"

\* what the request to the mail endpoint does: a success response, a
\* non-success response, or a thrown error
MailOutcomes == {"sent", "rejected", "threw"}

MailError == [kind |-> "mail", id |-> "", status |-> 0]

\* faulty sendAlert: no catch around the mail request
SendAlertRethrows(m) == [raised |-> (m = "threw")]

\* sendAlert (lines 128-160): a non-success status is logged (154-156) and a
\* thrown error is caught and logged (157-159); it returns in every case
SendAlert(m) == [raised |-> FALSE]

\* the places of performChargeFlow where an awaited call may throw
TrySites == {"auth_fetch", "auth_json", "start_fetch"}

\* faulty layout: authRes.json() awaited outside the try block
GuardedFetches(site) == site \in {"auth_fetch", "start_fetch"}

\* the site lies inside a try block (33-60, 67-90), whose catch turns the
\* exception into a failure result
Guarded(site) == site \in TrySites

StationIds == {"", "S1"}

(***************************************************************************)
(* The dashboard's authentication module (assets/js/auth.js)               *)
(***************************************************************************)
\* JavaScript values of the globals and of the localStorage item: null,
\* undefined or a string, a sequence of characters
Null == [kind |-> "null", text |-> <<>>]

Undefined == [kind |-> "undefined", text |-> <<>>]

Str(t) == [kind |-> "string", text |-> t]

\* !v
Falsy(v) == v.kind # "string" \/ v.text = <<>>

Whitespace == {" "}

RECURSIVE TrimStart(_)
TrimStart(t) == IF t # <<>> /\ Head(t) \in Whitespace THEN TrimStart(Tail(t)) ELSE t

RECURSIVE TrimEnd(_)
TrimEnd(t) ==
    IF t # <<>> /\ t[Len(t)] \in Whitespace THEN TrimEnd(SubSeq(t, 1, Len(t) - 1)) ELSE t

\* faulty trim: the input is taken as typed
TrimNothing(t) == t

\* String.prototype.trim (line 147)
Trim(t) == TrimEnd(TrimStart(t))

\* what the user may have typed into #pat-input
Inputs == {<<>>, <<" ">>, <<" ", " ">>, <<"A">>, <<" ", "A", " ">>, <<"B">>}

\* the item a previous visit may have left in localStorage
Saved == {Null, Str(<<"A">>), Str(<<"B">>)}

\* user.login of a parsed user response; a body without the field gives undefined
Logins == {Str(<<"alice">>), Str(<<"bob">>), Undefined}

\* a promise that rejects
Thrown == [kind |-> "throw", text |-> <<>>]

\* how an awaited fetch ends: success status, other status, network error
FetchOutcomes == {"ok", "fail", "throw"}

\* calls of checkGitHubAuth that can be in flight at once
MaxChecks == 2

CheckIds == 1 .. MaxChecks

\* the two requests of checkGitHubAuth with their Authorization token
UserRequest(token) == [url |-> "user", login |-> Null, token |-> token]

CollabRequest(login, token) == [url |-> "collaborators", login |-> login, token |-> token]

\* a call of checkGitHubAuth: the await it is suspended at, the token it was
\* started for, the requests it has sent, its local user.login, the statuses
\* it saw, and whether the module's state was written by someone else or a
\* different token was stored by loginWithPAT while it was in flight
NoCheck ==
    [pc |-> "none", started |-> Null, sent |-> <<>>, login |-> Undefined,
     userOk |-> FALSE, collabOk |-> FALSE, disturbed |-> FALSE, superseded |-> FALSE]

\* the globals and the stored item
Snapshot(b) ==
    [storage |-> b.storage, authToken |-> b.authToken,
     githubUsername |-> b.githubUsername, isContributor |-> b.isContributor]

\* the last step taken on the page: the operation, the branch it took, the
\* call of checkGitHubAuth it belongs to, whether that call resolved and to
\* what, the text read from #pat-input, and the globals before the step
Did(op, path, check, resolved, value, b0) ==
    [op |-> op, path |-> path, check |-> check, resolved |-> resolved,
     value |-> value, input |-> <<>>, before |-> Snapshot(b0)]

\* the page after the script has run (lines 17-19), with the item a previous
\* visit left in localStorage and with or without #auth-container; assigned
\* tells whether window.authToken has been assigned since
Loaded(saved, container) ==
    LET b == [storage |-> saved, authToken |-> Null, isContributor |-> FALSE,
              githubUsername |-> Null, assigned |-> FALSE,
              container |-> container, ui |-> "none",
              checks |-> [i \in CheckIds |-> NoCheck]]
    IN  b @@ [last |-> Did("load", "none", NoCheck, FALSE, FALSE, b)]

\* no page is open
NoPage == Loaded(Null, FALSE)

\* renderAuthUI (lines 95-138)
renderAuthUI(b, username, isContrib) ==
    IF ~b.container
      THEN b
      ELSE [b EXCEPT !.ui = IF ~Falsy(username) /\ isContrib THEN "contributor"
                            ELSE IF ~Falsy(username) THEN "readonly"
                            ELSE "form"]

InFlight(b) == {i \in CheckIds : b.checks[i].pc # "none"}

\* the slot a new call takes
NextSlot(b) == CHOOSE i \in CheckIds \ InFlight(b) : \A j \in CheckIds \ InFlight(b) : i <= j

\* b2 follows b by a step of call i (0: of no call): the other calls in flight
\* note whether the step wrote the globals or the stored item
Noted(b, b2, i) ==
    [b2 EXCEPT !.checks = [j \in CheckIds |->
        IF j # i /\ b.checks[j].pc # "none" /\ Snapshot(b2) # Snapshot(b)
          THEN [b2.checks[j] EXCEPT !.disturbed = TRUE]
          ELSE b2.checks[j]]]

\* the guard of line 40
NoToken(b) == Falsy(b.authToken)

\* checkGitHubAuth up to its first await (lines 39-52), called by op on a
\* page that was b0 when op began
checkGitHubAuth(b, op, b0) ==
    IF NoToken(b)
      THEN [renderAuthUI(b, Null, FALSE) EXCEPT
                !.last = Did(op, "no_token", NoCheck, TRUE, FALSE, b0)]
      ELSE LET c == [NoCheck EXCEPT !.pc = "user_fetch", !.started = b.authToken,
                                    !.sent = <<UserRequest(b.authToken)>>]
           IN  [b EXCEPT !.checks[NextSlot(b)] = c,
                         !.last = Did(op, "started", c, FALSE, FALSE, b0)]

\* initAuth (lines 25-33)
initAuth(b) ==
    LET saved == b.storage
    IN  IF ~Falsy(saved)
          THEN checkGitHubAuth([b EXCEPT !.authToken = saved, !.assigned = TRUE],
                               "initAuth", b)
          ELSE [renderAuthUI(b, Null, FALSE) EXCEPT
                    !.last = Did("initAuth", "logged_out", NoCheck, FALSE, FALSE, b)]

\* faulty login: the token is kept in the global only
StoreGlobalOnly(b, token) ==
    [b EXCEPT !.authToken = token, !.assigned = TRUE]

\* loginWithPAT storing token (lines 153-154); the calls in flight for
\* another token are superseded
Store(b, token) ==
    [b EXCEPT !.storage = token, !.authToken = token, !.assigned = TRUE,
              !.checks = [j \in CheckIds |->
                  IF b.checks[j].pc # "none" /\ b.checks[j].started # token
                    THEN [b.checks[j] EXCEPT !.superseded = TRUE]
                    ELSE b.checks[j]]]

\* loginWithPAT (lines 143-156) with input typed into #pat-input, which
\* exists while the login form is rendered
loginWithPAT(b, input) ==
    IF b.ui # "form"
      THEN [b EXCEPT !.last = Did("loginWithPAT", "no_input", NoCheck, FALSE, FALSE, b)]
      ELSE LET token == Str(Trim(input))
               b2 == IF Falsy(token)
                       THEN [b EXCEPT !.last = Did("loginWithPAT", "empty", NoCheck,
                                                   FALSE, FALSE, b)]
                       ELSE checkGitHubAuth(Store(b, token), "loginWithPAT", b)
           IN  [b2 EXCEPT !.last.input = input]

\* faulty clearing: the item stays in localStorage
ClearedGlobalsOnly(b) ==
    [b EXCEPT !.authToken = Null, !.assigned = TRUE,
              !.githubUsername = Null, !.isContributor = FALSE]

\* the four assignments of lines 56-59 and 162-165
Cleared(b) ==
    [b EXCEPT !.storage = Null, !.authToken = Null, !.assigned = TRUE,
              !.githubUsername = Null, !.isContributor = FALSE]

\* faulty logout: the contributor flag survives
logoutKeepingFlag(b) ==
    [renderAuthUI([b EXCEPT !.storage = Null, !.authToken = Null, !.assigned = TRUE,
                            !.githubUsername = Null], Null, FALSE) EXCEPT
        !.last = Did("logoutGitHub", "cleared", NoCheck, FALSE, FALSE, b)]

\* logoutGitHub (lines 161-167)
logoutGitHub(b) ==
    [renderAuthUI(Cleared(b), Null, FALSE) EXCEPT
        !.last = Did("logoutGitHub", "cleared", NoCheck, FALSE, FALSE, b)]

\* call i resolves to value on branch path, the page being b2
Settle(b, b2, i, op, path, c, value) ==
    [b2 EXCEPT !.checks[i] = NoCheck, !.last = Did(op, path, c, TRUE, value, b)]

\* the catch of lines 85-89
Caught(b, i, op) ==
    Settle(b, renderAuthUI(b, Null, FALSE), i, op, "error", b.checks[i], FALSE)

\* Response.ok (lines 54 and 75)
IsOk(o) == o = "ok"

\* the user request of call i ends as o (lines 47-62)
userResponse(b, i, o) ==
    LET c == [b.checks[i] EXCEPT !.userOk = (o = "ok")]
    IN  IF o = "throw"
          THEN Caught(b, i, "userResponse")
          ELSE IF ~IsOk(o)
            THEN Settle(b, renderAuthUI(Cleared(b), Null, FALSE),
                        i, "userResponse", "invalid", c, FALSE)
            ELSE LET d == [c EXCEPT !.pc = "user_json"]
                 IN  [b EXCEPT !.checks[i] = d,
                               !.last = Did("userResponse", "ok", d, FALSE, FALSE, b)]

\* the body of the user response of call i is parsed to a user with login o,
\* or json() rejects (lines 64-73)
userJson(b, i, o) ==
    LET c == b.checks[i]
    IN  IF o = Thrown
          THEN Caught(b, i, "userJson")
          ELSE LET d == [c EXCEPT !.pc = "collab_fetch", !.login = o,
                                  !.sent = Append(@, CollabRequest(o, b.authToken))]
               IN  [b EXCEPT !.githubUsername = o, !.checks[i] = d,
                             !.last = Did("userJson", "ok", d, FALSE, FALSE, b)]

\* faulty test of the collaborator response: any answer counts
CollaboratorAlways(o) == TRUE

\* the test of line 75
Collaborator(o) == IsOk(o)

\* the collaborator request of call i ends as o (lines 75-84)
collabResponse(b, i, o) ==
    LET c == [b.checks[i] EXCEPT !.collabOk = (o = "ok")]
    IN  IF o = "throw"
          THEN Caught(b, i, "collabResponse")
          ELSE IF Collaborator(o)
            THEN Settle(b, renderAuthUI([b EXCEPT !.isContributor = TRUE], c.login, TRUE),
                        i, "collabResponse", "contributor", c, TRUE)
            ELSE Settle(b, renderAuthUI([b EXCEPT !.isContributor = FALSE], c.login, FALSE),
                        i, "collabResponse", "not_collaborator", c, FALSE)

(***************************************************************************)
(* State                                                                   *)
(***************************************************************************)
VARIABLES
    stationId,   \* env.CP_STATION_ID of the deployment
    day,         \* kind of the current calendar day
    gateLog,     \* per cron hour of the day: "none", "open" or "closed"
    entry,       \* the handler running or last run: "none", "scheduled", "charge", "other"
    now,         \* UTC hour of the instant of the invocation (-1: none)
    ran,         \* performChargeFlow was invoked by this invocation
    sendAlerts,  \* its second parameter
    pc,          \* position of the invocation
    fr,          \* locals of the fetchWithRetry call in progress
    log,         \* outcomes of the calls of requestFn made by that call
    waits,       \* backoff delays (ms) that call has awaited
    calls,       \* requests this invocation has issued to each vendor endpoint
    trial,       \* the vendor traffic of a paired run of the two entry points
    dayRuns,     \* outcomes of the charge flows the scheduled handler ran this day
    other,       \* the context of a second invocation, suspended at an await
    browser,     \* the dashboard page: globals of auth.js, localStorage, checks in flight
    authDone,    \* summary of the finished authenticate call
    userId, sessionToken,
    ret,         \* the response fetchWithRetry returned to performChargeFlow
    pending,     \* error message of the failure branch awaiting sendAlert
    alerts,      \* requests made to the mail endpoint
    result,      \* value returned by performChargeFlow
    http,        \* the Response returned by the fetch handler
    escaped      \* an exception left performChargeFlow uncaught

vars ==
    <<stationId, day, gateLog, entry, now, ran, sendAlerts, pc, fr, log, waits, calls,
      authDone, userId, sessionToken, ret, pending, alerts, result, http,
      escaped, trial, dayRuns, other, browser>>

envVars == <<stationId, day>>

flowVars ==
    <<fr, log, waits, calls, authDone, userId, sessionToken, ret, pending, alerts,
      result>>

(***************************************************************************)
(* Paired runs: a run of the scheduled trigger whose vendor traffic is     *)
(* kept, followed by a run of POST /charge that is served the same vendor  *)
(* responses in the same order                                             *)
(***************************************************************************)
\* the authenticate request (lines 34-47): the credentials of the deployment
AuthRequest ==
    [url |-> "AUTH_URL", user |-> CP_USERNAME, station |-> "", token |-> CP_PASSWORD]

\* the start_session request (lines 69-79)
StartRequest(user, station, token) ==
    [url |-> "START_SESSION_URL", user |-> user, station |-> station, token |-> token]

\* outside a paired run
NoTrial == [mode |-> "off", script |-> <<>>, seen |-> <<>>, prev |-> NoResult]

\* the first run of a pair is about to start
FreshTrial == [mode |-> "record", script |-> <<>>, seen |-> <<>>, prev |-> NoResult]

\* the vendor answers the next request with o: free, except in the second
\* run of a pair, where the k-th request gets the k-th answer of the first run
Served(o) ==
    (trial.mode = "replay" /\ Len(trial.seen) < Len(trial.script))
        => o = trial.script[Len(trial.seen) + 1].outcome

\* the request req goes out and is answered with o
Observe(req, o) ==
    CASE trial.mode = "record" ->
           [trial EXCEPT !.script = Append(@, [req |-> req, outcome |-> o])]
      [] trial.mode = "replay" -> [trial EXCEPT !.seen = Append(@, req)]
      [] OTHER -> trial

\* the end of a run: the first run hands its traffic and its return value
\* to the second, the second makes way for a new pair
Handover ==
    CASE trial.mode = "record" -> [trial EXCEPT !.mode = "replay", !.prev = result]
      [] trial.mode = "replay" -> FreshTrial
      [] OTHER -> trial


\* the day's runs are not followed / are followed and there is none yet
NoDayRuns == [on |-> FALSE, oks |-> <<>>]

FreshDayRuns == [on |-> TRUE, oks |-> <<>>]

\* the end of an invocation: a charge flow run by the scheduled handler is
\* added to the runs of the day
Tally ==
    IF dayRuns.on /\ entry = "scheduled" /\ ran
      THEN [dayRuns EXCEPT !.oks = Append(@, result.ok)]
      ELSE dayRuns

NoCalls == [auth |-> 0, start |-> 0, list |-> 0]

NoAuth == [calls |-> 0, waits |-> 0, returned |-> FALSE, ok |-> FALSE]

\* the context of an invocation that has not started, with trial t
IdleContext(t) ==
    [entry |-> "none", now |-> 0 - 1, ran |-> FALSE, sendAlerts |-> FALSE, pc |-> "idle",
     fr |-> FreshRetry, log |-> <<>>, waits |-> <<>>, calls |-> NoCalls,
     authDone |-> NoAuth, userId |-> "", sessionToken |-> "", ret |-> NullResponse,
     pending |-> NoMsg, alerts |-> <<>>, result |-> NoResult, http |-> NoHttp,
     escaped |-> FALSE, trial |-> t]

\* the context of the running invocation: its locals and its position
Context ==
    [entry |-> entry, now |-> now, ran |-> ran, sendAlerts |-> sendAlerts, pc |-> pc,
     fr |-> fr, log |-> log, waits |-> waits, calls |-> calls,
     authDone |-> authDone, userId |-> userId, sessionToken |-> sessionToken, ret |-> ret,
     pending |-> pending, alerts |-> alerts, result |-> result, http |-> http,
     escaped |-> escaped, trial |-> trial]

FreshFlow ==
    /\ fr = FreshRetry
    /\ log = <<>>
    /\ waits = <<>>
    /\ calls = NoCalls
    /\ authDone = NoAuth
    /\ userId = ""
    /\ sessionToken = ""
    /\ ret = NullResponse
    /\ pending = NoMsg
    /\ alerts = <<>>
    /\ result = NoResult

\* the locals of a fresh call of performChargeFlow
ResetFlow ==
    /\ fr' = FreshRetry
    /\ log' = <<>>
    /\ waits' = <<>>
    /\ calls' = NoCalls
    /\ authDone' = NoAuth
    /\ userId' = ""
    /\ sessionToken' = ""
    /\ ret' = NullResponse
    /\ pending' = NoMsg
    /\ alerts' = <<>>
    /\ result' = NoResult

Init ==
    /\ stationId \in StationIds
    /\ day \in DayKinds
    /\ gateLog = [h \in CronHours |-> "none"]
    /\ entry = "none"
    /\ now = 0 - 1
    /\ ran = FALSE
    /\ sendAlerts = FALSE
    /\ pc = "idle"
    /\ http = NoHttp
    /\ escaped = FALSE
    /\ trial = NoTrial
    /\ dayRuns = NoDayRuns
    /\ other = IdleContext(NoTrial)
    /\ browser = NoPage
    /\ FreshFlow

(***************************************************************************)
(* Steps shared by the actions                                             *)
(***************************************************************************)
\* no invocation is in progress
Quiet == pc = "idle"

\* performChargeFlow returns r; the fetch handler wraps it in a Response
Return(r) ==
    /\ result' = r
    /\ pc' = "done"
    /\ http' = IF entry = "charge" THEN ResultResponse(r) ELSE NoHttp
    /\ escaped' = FALSE

\* an exception leaves performChargeFlow: the handler rejects and the runtime
\* answers the request, if any, with its own error page
Escape ==
    /\ pc' = "done"
    /\ escaped' = TRUE
    /\ http' = IF entry = "charge" THEN ErrorResponse(500, "exception") ELSE NoHttp
    /\ UNCHANGED <<result, pending>>

\* faulty failure branch: the alert is sent whatever sendAlerts says
FailAlways(m) ==
    /\ pc' = "alert"
    /\ pending' = m
    /\ UNCHANGED <<result, http, escaped>>

\* faulty failure branch: the alert is never sent
FailQuiet(m) ==
    /\ Return(ResultFail(m))
    /\ pending' = pending

\* faulty failure branch: only the start_session branches alert
FailStartOnly(m) ==
    IF sendAlerts /\ m.kind \in {MsgStartFailed(NullResponse).kind, MsgStartError(NoError).kind}
      THEN /\ pc' = "alert"
           /\ pending' = m
           /\ UNCHANGED <<result, http, escaped>>
      ELSE /\ Return(ResultFail(m))
           /\ pending' = pending

\* the tail shared by the four failure branches (lines 55-58, 61-64, 82-86, 91-94)
Fail(m) ==
    IF sendAlerts
      THEN /\ pc' = "alert"
           /\ pending' = m
           /\ UNCHANGED <<result, http, escaped>>
      ELSE /\ Return(ResultFail(m))
           /\ pending' = pending

\* entering performChargeFlow(env, alerts)
EnterFlow(alertsOn) ==
    /\ ran' = TRUE
    /\ sendAlerts' = alertsOn
    /\ pc' = "auth_fetch"
    /\ ResetFlow

\* a handler that returns without calling performChargeFlow
SkipFlow ==
    /\ ran' = FALSE
    /\ sendAlerts' = FALSE
    /\ pc' = "done"
    /\ ResetFlow

(***************************************************************************)
(* Entry points                                                            *)
(***************************************************************************)
\* faulty handler: a gate that remembers the day's runs and opens once a day
ScheduledOnce(f, h) ==
    /\ Quiet
    /\ entry' = "scheduled"
    /\ now' = h
    /\ http' = NoHttp
    /\ escaped' = FALSE
    /\ LET hour == getLocalHour(f, day, h)
       IN  /\ gateLog' = IF h \in CronHours
                           THEN [gateLog EXCEPT ![h] = IF GateOpen(hour) THEN "open" ELSE "closed"]
                           ELSE gateLog
           /\ IF GateOpen(hour) /\ dayRuns.oks = <<>> THEN EnterFlow(TRUE) ELSE SkipFlow
    /\ UNCHANGED <<envVars, trial, dayRuns, other, browser>>

\* scheduled (lines 163-169), invoked at UTC hour h on an engine formatting as f
Scheduled(f, h) ==
    /\ Quiet
    /\ entry' = "scheduled"
    /\ now' = h
    /\ http' = NoHttp
    /\ escaped' = FALSE
    /\ LET hour == getLocalHour(f, day, h)
       IN  /\ gateLog' = IF h \in CronHours
                           THEN [gateLog EXCEPT ![h] = IF GateOpen(hour) THEN "open" ELSE "closed"]
                           ELSE gateLog
           /\ IF GateOpen(hour) THEN EnterFlow(TRUE) ELSE SkipFlow
    /\ UNCHANGED <<envVars, trial, dayRuns, other, browser>>

\* station discovery (lines 187-297)
SetupRequest == [path |-> "/setup", method |-> "POST"]

\* the requests that reach the worker next to the scheduled events; station
\* discovery is a one-off of the installation and has its own specification
Requests ==
    [path : {"/charge", "/setup", "/"}, method : {"POST", "GET"}]
      \ {SetupRequest}

\* faulty routing: the method of the request is not looked at
FetchAnyMethod(req, h) ==
    /\ Quiet
    /\ now' = h
    /\ IF req.path = "/charge"
         THEN /\ entry' = "charge"
              /\ IF StationMissing(stationId)
                   THEN SkipFlow /\ http' = ErrorResponse(400, "CP_STATION_ID not set")
                   ELSE EnterFlow(FALSE) /\ http' = NoHttp
         ELSE IF req.path = "/setup"
                THEN /\ entry' = "setup"
                     /\ ran' = FALSE
                     /\ sendAlerts' = FALSE
                     /\ pc' = "setup_auth_fetch"
                     /\ ResetFlow
                     /\ http' = NoHttp
                ELSE /\ entry' = "other"
                     /\ SkipFlow
                     /\ http' = ErrorResponse(404, "Not found")
    /\ escaped' = FALSE
    /\ UNCHANGED <<envVars, gateLog, trial, dayRuns, other, browser>>

\* fetch (lines 170-185 and 299-302), for request req arriving at UTC hour h
Fetch(req, h) ==
    /\ Quiet
    /\ now' = h
    /\ IF req.path = "/charge" /\ req.method = "POST"
         THEN /\ entry' = "charge"
              /\ IF StationMissing(stationId)
                   THEN SkipFlow /\ http' = ErrorResponse(400, "CP_STATION_ID not set")
                   ELSE EnterFlow(FALSE) /\ http' = NoHttp
         ELSE IF req.path = "/setup" /\ req.method = "POST"
                THEN /\ entry' = "setup"
                     /\ ran' = FALSE
                     /\ sendAlerts' = FALSE
                     /\ pc' = "setup_auth_fetch"
                     /\ ResetFlow
                     /\ http' = NoHttp
                ELSE /\ entry' = "other"
                     /\ SkipFlow
                     /\ http' = ErrorResponse(404, "Not found")
    /\ escaped' = FALSE
    /\ UNCHANGED <<envVars, gateLog, trial, dayRuns, other, browser>>

\* midnight UTC: the next calendar day begins
NewDay ==
    /\ Quiet
    /\ \E h \in CronHours : gateLog[h] # "none"
    /\ day' \in DayKinds
    /\ gateLog' = [h \in CronHours |-> "none"]
    /\ dayRuns' = [dayRuns EXCEPT !.oks = <<>>]
    /\ UNCHANGED <<other, browser>>
    /\ UNCHANGED <<stationId, entry, now, ran, sendAlerts, pc, http, escaped, trial>>
    /\ UNCHANGED flowVars

(***************************************************************************)
(* performChargeFlow (lines 29-96)                                         *)
(***************************************************************************)
\* one attempt of the authenticate request, outcome o (lines 38-48, 60-65)
AuthAttempt(o) ==
    /\ pc = "auth_fetch"
    /\ Served(o)
    /\ trial' = Observe(AuthRequest, o)
    /\ UNCHANGED <<dayRuns, other, browser>>
    /\ log' = Append(log, o)
    /\ calls' = [calls EXCEPT !.auth = @ + 1]
    /\ LET s == LoopBody(fr, o)
       IN  /\ fr' = s.fr
           /\ CASE s.ctl = "delay" ->
                     /\ pc' = "auth_wait"
                     /\ UNCHANGED <<authDone, ret, pending, result, http, escaped>>
                [] s.ctl = "return" ->
                     /\ pc' = "auth_parse"
                     /\ ret' = s.val
                     /\ authDone' = [calls |-> Len(log) + 1, waits |-> Len(waits),
                                     returned |-> TRUE, ok |-> Ok(s.val)]
                     /\ UNCHANGED <<pending, result, http, escaped>>
                [] s.ctl = "throw" ->
                     /\ authDone' = [calls |-> Len(log) + 1, waits |-> Len(waits),
                                     returned |-> FALSE, ok |-> FALSE]
                     /\ IF Guarded("auth_fetch")
                          THEN Fail(MsgAuthError(s.err))
                          ELSE Escape
                     /\ ret' = ret
    /\ UNCHANGED <<envVars, gateLog, entry, now, ran, sendAlerts, waits,
                   userId, sessionToken, alerts>>

\* the four calls of fetchWithRetry (lines 38, 68, 195, 255): where each
\* waits, and where it issues its request
AfterWait ==
    [w \in {"auth_wait", "start_wait", "setup_auth_wait", "setup_list_wait"} |->
        CASE w = "auth_wait" -> "auth_fetch"
          [] w = "start_wait" -> "start_fetch"
          [] w = "setup_auth_wait" -> "setup_auth_fetch"
          [] w = "setup_list_wait" -> "setup_list_fetch"]

\* await delay(...) of a fetchWithRetry call (line 115)
Delay ==
    /\ pc \in DOMAIN AfterWait
    /\ waits' = Append(waits, Backoff(fr.attempt))
    /\ pc' = AfterWait[pc]
    /\ UNCHANGED <<envVars, gateLog, entry, now, ran, sendAlerts, fr, log, calls,
                   authDone, userId, sessionToken, ret, pending, alerts, result, http,
                   escaped, trial, dayRuns, other, browser>>

\* await authRes.json() and the check of the two fields (lines 50-59)
AuthParse ==
    /\ pc = "auth_parse"
    /\ IF ~ret.body.json
         THEN /\ IF Guarded("auth_json")
                   THEN Fail(MsgAuthError(JsonError))
                   ELSE Escape
              /\ UNCHANGED <<userId, sessionToken, fr, log, waits>>
         ELSE /\ userId' = UserIdOf(ret.body)
              /\ sessionToken' = TokenOf(ret.body)
              /\ IF AuthIncomplete(UserIdOf(ret.body), TokenOf(ret.body))
                   THEN /\ Fail(MsgAuthMissing(ret.body))
                        /\ UNCHANGED <<fr, log, waits>>
                   ELSE /\ pc' = "start_fetch"
                        /\ fr' = FreshRetry
                        /\ log' = <<>>
                        /\ waits' = <<>>
                        /\ UNCHANGED <<pending, result, http, escaped>>
    /\ UNCHANGED <<envVars, gateLog, entry, now, ran, sendAlerts, calls, authDone, ret,
                   alerts, trial, dayRuns, other, browser>>

\* one attempt of the start_session request, outcome o (lines 67-95)
StartAttempt(o) ==
    /\ pc = "start_fetch"
    /\ Served(o)
    /\ trial' = Observe(StartRequest(userId, stationId, sessionToken), o)
    /\ UNCHANGED <<dayRuns, other, browser>>
    /\ log' = Append(log, o)
    /\ calls' = [calls EXCEPT !.start = @ + 1]
    /\ LET s == LoopBody(fr, o)
       IN  /\ fr' = s.fr
           /\ CASE s.ctl = "delay" ->
                     /\ pc' = "start_wait"
                     /\ UNCHANGED <<ret, pending, result, http, escaped>>
                [] s.ctl = "return" ->
                     /\ ret' = s.val
                     /\ IF StartFailed(s.val)
                          THEN Fail(MsgStartFailed(s.val))
                          ELSE Return(ResultOk) /\ pending' = pending
                [] s.ctl = "throw" ->
                     /\ IF Guarded("start_fetch")
                          THEN Fail(MsgStartError(s.err))
                          ELSE Escape
                     /\ ret' = ret
    /\ UNCHANGED <<envVars, gateLog, entry, now, ran, sendAlerts, waits, authDone,
                   userId, sessionToken, alerts>>

\* "if (sendAlerts) await sendAlert(...)" of a failure branch, then its
\* return; m is what the mail request did.  Were sendAlert to raise, the
\* branches inside a try block (lines 57, 85) would end in the catch below
\* them, which alerts again; those in a catch block (lines 63, 93) would let
\* the exception out.
Alert(m) ==
    /\ pc = "alert"
    /\ alerts' = Append(alerts, [to |-> AlertEmail, subject |-> AlertSubject,
                                 body |-> pending, outcome |-> m])
    /\ IF ~SendAlert(m).raised
         THEN Return(ResultFail(pending)) /\ pending' = pending
         ELSE IF pending.kind \in {MsgAuthMissing(NullResponse.body).kind,
                                   MsgStartFailed(NullResponse).kind}
                THEN /\ pending' = IF pending.kind = MsgStartFailed(NullResponse).kind
                                     THEN MsgStartError(MailError)
                                     ELSE MsgAuthError(MailError)
                     /\ UNCHANGED <<pc, result, http, escaped>>
                ELSE Escape
    /\ UNCHANGED <<envVars, gateLog, entry, now, ran, sendAlerts, fr, log, waits,
                   calls, authDone, userId, sessionToken, ret, trial, dayRuns, other, browser>>

(***************************************************************************)
(* POST /setup: station discovery (lines 187-297)                          *)
(***************************************************************************)
\* a body with the two further fields this route reads: error of the auth
\* response (line 236) and data of the charger list (line 273)
SetupBody(b, e, d) ==
    [json |-> b.json, userid |-> b.userid, uid |-> b.uid, uuid |-> b.uuid,
     coulomb |-> b.coulomb, access |-> b.access, auth |-> b.auth, text |-> b.text,
     error |-> e, data |-> d]

\* authJson.error and chargerJson.data, undefined when the field is absent
ErrorOf(b) == IF "error" \in DOMAIN b THEN b.error ELSE ""

DataOf(b) == IF "data" \in DOMAIN b THEN b.data ELSE <<>>

\* an auth answer that carries an error next to a user id and a token
BodyDenied ==
    SetupBody(MkBody(TRUE, "U1", 0, 0, "T1", "", "", <<"U1", "T1", "denied">>),
              "denied", <<>>)

SetupAuthBodies == AuthBodies \cup {BodyDenied}

Charger1 == [station_id |-> "S1", station_name |-> "Garage", model |-> "CPH50"]

Charger2 == [station_id |-> "S2", station_name |-> "Carport", model |-> "CPH25"]

\* a charger list answer: a JSON object with the stations d under data
ListBody(d, t) == SetupBody(MkBody(TRUE, "", 0, 0, "", "", "", t), "", d)

\* {}, {"data": []}, one station, two stations, and a text that is not JSON
ChargerBodies ==
    {BodyNotJson,
     ListBody(<<>>, <<>>),
     ListBody(<<>>, <<"data">>),
     ListBody(<<Charger1>>, <<"data", "S1", "Garage", "CPH50">>),
     ListBody(<<Charger1, Charger2>>,
              <<"data", "S1", "Garage", "CPH50", "S2", "Carport", "CPH25">>)}

\* lines 282-285: chargers.map(c => ({station_id, station_name}))
StationList(d) ==
    [i \in 1 .. Len(d) |->
        [station_id |-> d[i].station_id, station_name |-> d[i].station_name]]

\* a Response of the route: its status, its error text, the further values
\* its JSON carries (as words) and its chargers
SetupResponse(st, e, w, c) ==
    [NoHttp EXCEPT !.status = st, !.kind = "setup", !.error = e,
                   !.words = w, !.chargers = c]

\* lines 210-211: usernameSet and passwordSet (the two lengths of lines
\* 212-213 are numbers and are left out)
CredentialFlags ==
    <<"usernameSet", ToString(CP_USERNAME # ""), "passwordSet", ToString(CP_PASSWORD # "")>>

\* faulty check: a non-success auth response is parsed like a success
SetupAuthRefusedNever(res) == FALSE

\* line 219: "if (!authRes.ok)"
SetupAuthRefused(res) == ~Ok(res)

\* faulty check: the error field is not looked at
SetupAuthFailedNoError(b) == TokenOf(b) = ""

\* line 236: "if (!sessionToken || authJson.error)"
SetupAuthFailed(b) == TokenOf(b) = "" \/ ErrorOf(b) # ""

\* faulty check: an empty list passes
NoChargersNever(d) == FALSE

\* line 275: "if (chargers.length === 0)"
NoChargers(d) == Len(d) = 0

\* return new Response(...)
Respond(r) ==
    /\ http' = r
    /\ pc' = "done"

\* one attempt of the authenticate request of the route (lines 190-217)
SetupAuthAttempt(o) ==
    /\ pc = "setup_auth_fetch"
    /\ log' = Append(log, o)
    /\ calls' = [calls EXCEPT !.auth = @ + 1]
    /\ LET s == LoopBody(fr, o)
       IN  /\ fr' = s.fr
           /\ CASE s.ctl = "delay" ->
                     /\ pc' = "setup_auth_wait"
                     /\ UNCHANGED <<ret, http>>
                [] s.ctl = "return" ->
                     /\ pc' = "setup_auth_read"
                     /\ ret' = s.val
                     /\ UNCHANGED http
                [] s.ctl = "throw" ->
                     /\ Respond(SetupResponse(500, "Auth fetch failed",
                                              ErrorWords(s.err) \o CredentialFlags, <<>>))
                     /\ ret' = ret
    /\ UNCHANGED <<envVars, gateLog, entry, now, ran, sendAlerts, waits, authDone,
                   userId, sessionToken, pending, alerts, result, escaped, trial, dayRuns, other, browser>>

\* lines 219-251: the status of the auth response, its body and its fields;
\* a body that is not JSON throws into the catch of lines 291-296
SetupAuthRead ==
    /\ pc = "setup_auth_read"
    /\ IF SetupAuthRefused(ret)
         THEN /\ Respond(SetupResponse(ret.status, "Auth returned",
                                       <<ToString(ret.status)>> \o ret.body.text, <<>>))
              /\ UNCHANGED <<userId, sessionToken, fr, log, waits>>
         ELSE IF ~ret.body.json
           THEN /\ Respond(SetupResponse(500, "SyntaxError", <<>>, <<>>))
                /\ UNCHANGED <<userId, sessionToken, fr, log, waits>>
           ELSE /\ userId' = UserIdOf(ret.body)
                /\ sessionToken' = TokenOf(ret.body)
                /\ IF SetupAuthFailed(ret.body)
                     THEN /\ Respond(SetupResponse(401, "Auth failed or missing session token",
                                                   ret.body.text, <<>>))
                          /\ UNCHANGED <<fr, log, waits>>
                     ELSE IF UserIdOf(ret.body) = ""
                       THEN /\ Respond(SetupResponse(500,
                                           "Could not find user_id in login response",
                                           ret.body.text, <<>>))
                            /\ UNCHANGED <<fr, log, waits>>
                       ELSE /\ pc' = "setup_list_fetch"
                            /\ fr' = FreshRetry
                            /\ log' = <<>>
                            /\ waits' = <<>>
                            /\ UNCHANGED http
    /\ UNCHANGED <<envVars, gateLog, entry, now, ran, sendAlerts, calls, authDone, ret,
                   pending, alerts, result, escaped, trial, dayRuns, other, browser>>

\* one attempt of the get_home_chargers request (lines 253-270)
SetupListAttempt(o) ==
    /\ pc = "setup_list_fetch"
    /\ log' = Append(log, o)
    /\ calls' = [calls EXCEPT !.list = @ + 1]
    /\ LET s == LoopBody(fr, o)
       IN  /\ fr' = s.fr
           /\ CASE s.ctl = "delay" ->
                     /\ pc' = "setup_list_wait"
                     /\ UNCHANGED <<ret, http>>
                [] s.ctl = "return" ->
                     /\ pc' = "setup_list_parse"
                     /\ ret' = s.val
                     /\ UNCHANGED http
                [] s.ctl = "throw" ->
                     /\ Respond(SetupResponse(500, "Charger fetch failed",
                                              ErrorWords(s.err), <<>>))
                     /\ ret' = ret
    /\ UNCHANGED <<envVars, gateLog, entry, now, ran, sendAlerts, waits, authDone,
                   userId, sessionToken, pending, alerts, result, escaped, trial, dayRuns, other, browser>>

\* lines 272-290: the body of the charger response and the list in it
SetupListParse ==
    /\ pc = "setup_list_parse"
    /\ IF ~ret.body.json
         THEN Respond(SetupResponse(500, "SyntaxError", <<>>, <<>>))
         ELSE IF NoChargers(DataOf(ret.body))
           THEN Respond(SetupResponse(404, "No home chargers found", ret.body.text, <<>>))
           ELSE Respond(SetupResponse(200, "", <<>>, StationList(DataOf(ret.body))))
    /\ UNCHANGED <<envVars, gateLog, entry, now, ran, sendAlerts, fr, log, waits, calls,
                   authDone, userId, sessionToken, ret, pending, alerts, result, escaped,
                   trial, dayRuns, other, browser>>

(***************************************************************************)
(* Overlapping invocations.  The isolate runs one invocation at a time and *)
(* changes over at an await: the running invocation is suspended with its  *)
(* locals, the other one resumes with its own.                             *)
(***************************************************************************)
\* the context c resumes, userId and sessionToken apart
Resume(c) ==
    /\ entry' = c.entry
    /\ now' = c.now
    /\ ran' = c.ran
    /\ sendAlerts' = c.sendAlerts
    /\ pc' = c.pc
    /\ fr' = c.fr
    /\ log' = c.log
    /\ waits' = c.waits
    /\ calls' = c.calls
    /\ authDone' = c.authDone
    /\ ret' = c.ret
    /\ pending' = c.pending
    /\ alerts' = c.alerts
    /\ result' = c.result
    /\ http' = c.http
    /\ escaped' = c.escaped
    /\ trial' = c.trial

\* faulty layout: userId and sessionToken declared at module level, one
\* pair for all invocations
SwitchSharing ==
    /\ other' = Context
    /\ Resume(other)
    /\ UNCHANGED <<userId, sessionToken>>
    /\ UNCHANGED <<envVars, gateLog, dayRuns, browser>>

\* the running invocation awaits and the other one goes on; userId and
\* sessionToken are locals of performChargeFlow (lines 30-31)
Switch ==
    /\ other' = Context
    /\ Resume(other)
    /\ userId' = other.userId
    /\ sessionToken' = other.sessionToken
    /\ UNCHANGED <<envVars, gateLog, dayRuns, browser>>

\* the invocation is over: the runtime drops its context (nothing of an
\* invocation outlives it)
Finish ==
    /\ pc = "done"
    /\ pc' = "idle"
    /\ entry' = "none"
    /\ now' = 0 - 1
    /\ ran' = FALSE
    /\ sendAlerts' = FALSE
    /\ http' = NoHttp
    /\ escaped' = FALSE
    /\ trial' = Handover
    /\ dayRuns' = Tally
    /\ UNCHANGED <<other, browser>>
    /\ ResetFlow
    /\ UNCHANGED <<envVars, gateLog>>

Next ==
    \/ \E f \in HourFormats, h \in UtcHours : Scheduled(f, h)
    \/ \E req \in Requests, h \in RequestHours : Fetch(req, h)
    \/ NewDay
    \/ \E o \in Outcomes(AuthBodies) : AuthAttempt(o)
    \/ Delay
    \/ AuthParse
    \/ \E o \in Outcomes(StartBodies) : StartAttempt(o)
    \/ \E m \in MailOutcomes : Alert(m)
    \/ Finish

Spec == Init /\ [][Next]_vars

(***************************************************************************)
(* The specification of paired runs                                        *)
(***************************************************************************)
\* the kinds of day on which pairs are run
PairDays == {"standard"}

InitPair ==
    /\ stationId \in StationIds
    /\ day \in PairDays
    /\ gateLog = [h \in CronHours |-> "none"]
    /\ entry = "none"
    /\ now = 0 - 1
    /\ ran = FALSE
    /\ sendAlerts = FALSE
    /\ pc = "idle"
    /\ http = NoHttp
    /\ escaped = FALSE
    /\ trial = FreshTrial
    /\ dayRuns = NoDayRuns
    /\ other = IdleContext(NoTrial)
    /\ browser = NoPage
    /\ FreshFlow

\* first run of a pair: the scheduled trigger fires while the local hour is 6
PairScheduled(f, h) ==
    /\ trial.mode = "record"
    /\ GateOpen(getLocalHour(f, day, h))
    /\ Scheduled(f, h)

\* second run of a pair: POST /charge, against the same configuration
PairCharge(h) ==
    /\ trial.mode = "replay"
    /\ Fetch([path |-> "/charge", method |-> "POST"], h)

NextPair ==
    \/ \E f \in HourFormats, h \in CronHours : PairScheduled(f, h)
    \/ \E h \in RequestHours : PairCharge(h)
    \/ \E o \in Outcomes(AuthBodies) : AuthAttempt(o)
    \/ Delay
    \/ AuthParse
    \/ \E o \in Outcomes(StartBodies) : StartAttempt(o)
    \/ \E m \in MailOutcomes : Alert(m)
    \/ Finish

SpecPair == InitPair /\ [][NextPair]_vars

(***************************************************************************)
(* The specification of station discovery                                  *)
(***************************************************************************)
NextSetup ==
    \/ \E h \in RequestHours : Fetch(SetupRequest, h)
    \/ \E o \in Outcomes(SetupAuthBodies) : SetupAuthAttempt(o)
    \/ Delay
    \/ SetupAuthRead
    \/ \E o \in Outcomes(ChargerBodies) : SetupListAttempt(o)
    \/ SetupListParse
    \/ Finish

SpecSetup == Init /\ [][NextSetup]_vars

(***************************************************************************)
(* The specification of the parse of the auth response: the authenticate   *)
(* call has just returned a success response, whose JSON body is any       *)
(* combination of the fields the code reads                                *)
(***************************************************************************)
\* the values of a body, as the words of its text
BodyWords(u, i1, i2, c, a1, a2) ==
    SelectSeq(<<u, IF i1 = 0 THEN "" ELSE ToString(i1),
                IF i2 = 0 THEN "" ELSE ToString(i2), c, a1, a2>>,
              LAMBDA w : w # "")

ParseBodies ==
    LET plain == {MkBody(TRUE, u, i1, i2, c, a1, a2, BodyWords(u, i1, i2, c, a1, a2)) :
                    u \in {"", "U1"}, i1 \in {0, 7}, i2 \in {0, 9},
                    c \in {"", "T1"}, a1 \in {"", "T2"}, a2 \in {"", "T3"}}
    IN  plain \cup {SetupBody(b, "denied", <<>>) : b \in plain}

InitParse ==
    /\ stationId = "S1"
    /\ day = "standard"
    /\ gateLog = [h \in CronHours |-> "none"]
    /\ now = 13
    /\ entry \in {"scheduled", "charge", "setup"}
    /\ ran = (entry # "setup")
    /\ sendAlerts = (entry = "scheduled")
    /\ pc = IF entry = "setup" THEN "setup_auth_read" ELSE "auth_parse"
    /\ http = NoHttp
    /\ escaped = FALSE
    /\ trial = NoTrial
    /\ dayRuns = NoDayRuns
    /\ other = IdleContext(NoTrial)
    /\ browser = NoPage
    /\ fr = FreshRetry
    /\ \E b \in ParseBodies :
           /\ ret = Resolved(200, b).res
           /\ log = <<Resolved(200, b)>>
    /\ waits = <<>>
    /\ calls = [NoCalls EXCEPT !.auth = 1]
    /\ authDone = IF entry = "setup" THEN NoAuth
                  ELSE [calls |-> 1, waits |-> 0, returned |-> TRUE, ok |-> TRUE]
    /\ userId = ""
    /\ sessionToken = ""
    /\ pending = NoMsg
    /\ alerts = <<>>
    /\ result = NoResult

NextParse ==
    \/ AuthParse
    \/ SetupAuthRead

SpecParse == InitParse /\ [][NextParse]_vars

(***************************************************************************)
(* The specification of a day on which the schedule may fire any number of *)
(* times in the same hour (a misconfigured cron expression)                *)
(***************************************************************************)
\* scheduled events followed per day
MaxDayRuns == 2

InitDay ==
    /\ stationId = "S1"
    /\ day \in {"standard", "daylight"}
    /\ gateLog = [h \in CronHours |-> "none"]
    /\ entry = "none"
    /\ now = 0 - 1
    /\ ran = FALSE
    /\ sendAlerts = FALSE
    /\ pc = "idle"
    /\ http = NoHttp
    /\ escaped = FALSE
    /\ trial = NoTrial
    /\ dayRuns = FreshDayRuns
    /\ other = IdleContext(NoTrial)
    /\ browser = NoPage
    /\ FreshFlow

\* a scheduled event, at either hour of the cron expression, however many
\* events came before it this day
DayScheduled(f, h) ==
    /\ Len(dayRuns.oks) < MaxDayRuns
    /\ Scheduled(f, h)

NextDay ==
    \/ \E f \in HourFormats, h \in CronHours : DayScheduled(f, h)
    \/ \E o \in Outcomes(AuthBodies) : AuthAttempt(o)
    \/ Delay
    \/ AuthParse
    \/ \E o \in Outcomes(StartBodies) : StartAttempt(o)
    \/ \E m \in MailOutcomes : Alert(m)
    \/ Finish
    \/ NewDay

SpecDay == InitDay /\ [][NextDay]_vars

(***************************************************************************)
(* The specification of two overlapping invocations                        *)
(***************************************************************************)
\* an auth answer for a second account
BodyOther == MkBody(TRUE, "U2", 0, 0, "T2", "", "", <<"U2", "T2">>)

\* what the vendor answers while two invocations are in flight
OverlapAuthOutcomes ==
    {Threw("E1"), Resolved(500, BodyNotJson), Resolved(200, BodyFull), Resolved(200, BodyOther)}

OverlapStartOutcomes == {Resolved(500, BodyText(<<"B0">>)), Resolved(200, BodyText(<<"B0">>))}

InitOverlap ==
    /\ stationId = "S1"
    /\ day = "daylight"
    /\ gateLog = [h \in CronHours |-> "none"]
    /\ entry = "none"
    /\ now = 0 - 1
    /\ ran = FALSE
    /\ sendAlerts = FALSE
    /\ pc = "idle"
    /\ http = NoHttp
    /\ escaped = FALSE
    /\ trial = FreshTrial
    /\ dayRuns = NoDayRuns
    /\ other = IdleContext(FreshTrial)
    /\ browser = NoPage
    /\ FreshFlow

NextOverlap ==
    \/ \E f \in HourFormats, h \in CronHours : Scheduled(f, h)
    \/ \E h \in RequestHours : Fetch([path |-> "/charge", method |-> "POST"], h)
    \/ \E o \in OverlapAuthOutcomes : AuthAttempt(o)
    \/ Delay
    \/ AuthParse
    \/ \E o \in OverlapStartOutcomes : StartAttempt(o)
    \/ \E m \in MailOutcomes : Alert(m)
    \/ Switch

SpecOverlap == InitOverlap /\ [][NextOverlap]_vars

(***************************************************************************)
(* The specification of one deployment whose awaited requests all complete *)
(***************************************************************************)
InitLive ==
    /\ Init
    /\ stationId = "S1"
    /\ day = "daylight"

\* the awaits of a running invocation: each completes (returns or throws)
AuthCompletes == \E o \in Outcomes(AuthBodies) : AuthAttempt(o)

StartCompletes == \E o \in Outcomes(StartBodies) : StartAttempt(o)

AlertCompletes == \E m \in MailOutcomes : Alert(m)

NextLive ==
    \/ \E f \in HourFormats, h \in CronHours : Scheduled(f, h)
    \/ \E h \in RequestHours : Fetch([path |-> "/charge", method |-> "POST"], h)
    \/ AuthCompletes
    \/ Delay
    \/ AuthParse
    \/ StartCompletes
    \/ AlertCompletes
    \/ Finish

SpecLive ==
    /\ InitLive
    /\ [][NextLive]_vars
    /\ WF_vars(AuthCompletes)
    /\ WF_vars(Delay)
    /\ WF_vars(AuthParse)
    /\ WF_vars(StartCompletes)
    /\ WF_vars(AlertCompletes)

(***************************************************************************)
(* The specification of the dashboard page                                 *)
(***************************************************************************)
workerVars ==
    <<stationId, day, gateLog, entry, now, ran, sendAlerts, pc, fr, log, waits, calls,
      authDone, userId, sessionToken, ret, pending, alerts, result, http,
      escaped, trial, dayRuns, other>>

\* the page is loaded; the worker is a separate program and idle
InitPage ==
    /\ stationId = "S1"
    /\ day = "standard"
    /\ \E saved \in Saved, container \in BOOLEAN : browser = Loaded(saved, container)
    /\ gateLog = [h \in CronHours |-> "none"]
    /\ entry = "none"
    /\ now = 0 - 1
    /\ ran = FALSE
    /\ sendAlerts = FALSE
    /\ pc = "idle"
    /\ http = NoHttp
    /\ escaped = FALSE
    /\ FreshFlow
    /\ trial = NoTrial
    /\ dayRuns = NoDayRuns
    /\ other = IdleContext(NoTrial)

\* a step of the page that is no step of a call in flight
PageStep(b2) ==
    /\ browser' = Noted(browser, b2, 0)
    /\ UNCHANGED workerVars

\* a step of call i
CheckStep(i, b2) ==
    /\ browser' = Noted(browser, b2, i)
    /\ UNCHANGED workerVars

\* the page calls initAuth
InitAuthCall ==
    /\ InFlight(browser) # CheckIds
    /\ PageStep(initAuth(browser))

\* the page, or the console, calls checkGitHubAuth
CheckCall ==
    /\ InFlight(browser) # CheckIds
    /\ PageStep(checkGitHubAuth(browser, "checkGitHubAuth", browser))

\* the Login button is pressed
LoginCall(input) ==
    /\ InFlight(browser) # CheckIds
    /\ PageStep(loginWithPAT(browser, input))

\* the Logout button is pressed, or the console calls logoutGitHub
LogoutCall ==
    PageStep(logoutGitHub(browser))

UserResponds(i, o) ==
    /\ browser.checks[i].pc = "user_fetch"
    /\ CheckStep(i, userResponse(browser, i, o))

UserParsed(i, o) ==
    /\ browser.checks[i].pc = "user_json"
    /\ CheckStep(i, userJson(browser, i, o))

CollabResponds(i, o) ==
    /\ browser.checks[i].pc = "collab_fetch"
    /\ CheckStep(i, collabResponse(browser, i, o))

NextPage ==
    \/ InitAuthCall
    \/ CheckCall
    \/ \E input \in Inputs : LoginCall(input)
    \/ LogoutCall
    \/ \E i \in CheckIds, o \in FetchOutcomes : UserResponds(i, o)
    \/ \E i \in CheckIds, o \in Logins \cup {Thrown} : UserParsed(i, o)
    \/ \E i \in CheckIds, o \in FetchOutcomes : CollabResponds(i, o)

SpecPage == InitPage /\ [][NextPage]_vars

(***************************************************************************)
(* Properties                                                              *)
(***************************************************************************)
InFetch == pc \in {AfterWait[w] : w \in DOMAIN AfterWait}

InWait == pc \in DOMAIN AfterWait

\* the fetchWithRetry call whose attempts are in log has returned or thrown
Completed == log # <<>> /\ ~InFetch /\ ~InWait

Succeeded(o) == ~o.threw /\ o.res.status \in OkStatuses

Failed(o) == o.threw \/ o.res.status \in FailStatuses

AllFailed == \A i \in 1 .. Len(log) : Failed(log[i])

\* the error message of the failure branch taken, if any
Surfaced == IF pc = "alert" THEN pending ELSE result.error

\* C1: the scheduled handler runs the charge flow iff the civil hour of the
\* instant in America/Los_Angeles is 6; an invocation at any other hour has
\* returned without a vendor request and without an alert.
C1_GateIffHourSix ==
    entry = "scheduled" =>
        /\ ran <=> (CivilHour(day, now) = 6)
        /\ CivilHour(day, now) # 6 =>
               /\ pc = "done"
               /\ calls = NoCalls
               /\ log = <<>>
               /\ alerts = <<>>

C1_Witness ==
    /\ entry = "scheduled"
    /\ pc = "done"
    /\ CivilHour(day, now) = 7
    /\ ~ran

\* C2: on a day of any kind, once the 13:00 UTC and the 14:00 UTC triggers
\* have both fired, exactly one of the two has passed the gate.
C2_ExactlyOneTrigger ==
    (\A h \in CronHours : gateLog[h] # "none") =>
        Cardinality({h \in CronHours : gateLog[h] = "open"}) = 1

C2_Witness ==
    /\ day = "springForward"
    /\ gateLog[13] = "open"
    /\ gateLog[14] = "closed"

\* C3: a call of fetchWithRetry calls the request function at most 3 times,
\* and an attempt that yields a success response is its last one: that very
\* response is returned, with no attempt and no wait after it.
C3_AtMostThreeStopAtSuccess ==
    /\ Len(log) <= 3
    /\ \A i \in 1 .. Len(log) :
           Succeeded(log[i]) =>
               /\ i = Len(log)
               /\ Completed
               /\ ret = log[i].res
               /\ Len(waits) = i - 1

C3_Witness ==
    /\ pc = "done"
    /\ Len(log) = 2
    /\ Succeeded(log[2])
    /\ calls.start = 2

\* C4: every failed attempt but the third is followed by exactly one wait
\* before the next attempt, 2000 ms after the first and 4000 ms after the
\* second, whatever the failure (thrown error, 4xx or 5xx); nothing is awaited
\* after the third, so a finished call has waited once less than it attempted.
C4_WaitsBetweenAttempts ==
    /\ waits = SubSeq(<<2000, 4000>>, 1, Len(waits))
    /\ InFetch => Len(waits) = Len(log) /\ AllFailed
    /\ InWait => Len(waits) = Len(log) - 1 /\ AllFailed /\ Len(log) < 3
    /\ Completed =>
           /\ Len(waits) = Len(log) - 1
           /\ Failed(log[Len(log)]) => Len(log) = 3

C4_Witness ==
    /\ Completed
    /\ Len(log) = 3
    /\ ~log[1].threw /\ log[1].res.status = 401
    /\ log[2].threw
    /\ ~log[3].threw /\ log[3].res.status = 500
    /\ waits = <<2000, 4000>>

\* C5: when all 3 attempts have failed, fetchWithRetry returns the response
\* received last if any attempt received one (also when later attempts threw),
\* and throws only if none did, and then the error of the third attempt.
C5_ExhaustedOutcome ==
    (Completed /\ Len(log) = 3 /\ AllFailed) =>
        LET got == {i \in 1 .. 3 : ~log[i].threw}
        IN  IF got # {}
              THEN /\ ret = log[CHOOSE i \in got : \A j \in got : j <= i].res
                   /\ Surfaced.err.kind # "transport"
              ELSE /\ Surfaced.kind \in {"Auth error", "Start session error"}
                   /\ Surfaced.err = log[3].err

C5_Witness ==
    /\ Completed
    /\ Len(log) = 3
    /\ ~log[1].threw /\ log[1].res.status = 401
    /\ log[2].threw
    /\ log[3].threw
    /\ ret = log[1].res

\* C6: start_session is requested only when authentication produced a
\* non-empty user id and a non-empty session token; an invocation whose auth
\* response lacks either ends with ok:false and no start_session request.
C6_StartNeedsBothFields ==
    /\ calls.start > 0 => userId # "" /\ sessionToken # ""
    /\ (pc = "done" /\ authDone.returned /\ (userId = "" \/ sessionToken = "")) =>
           /\ ~result.ok
           /\ calls.start = 0

C6_Witness ==
    /\ pc = "done"
    /\ authDone.returned
    /\ authDone.ok
    /\ ret.body = BodyNoToken
    /\ calls.start = 0
    /\ ~result.ok

\* C7: start_session is requested only after the authenticate call has
\* returned a success response; never after an authenticate call that
\* exhausted its retries with a non-success response.
C7_StartOnlyAfterAuthSuccess ==
    calls.start > 0 => authDone.returned /\ authDone.ok

\* C8: performChargeFlow returns ok:true iff the start_session call, made
\* after authentication yielded both fields, ended by receiving a success
\* response within its 3 attempts; otherwise it returns ok:false with an
\* error; no alert was sent by an invocation that returns ok:true.
C8_OkIffStartSucceeded ==
    (pc = "done" /\ ran) =>
        /\ result.ok <=>
               /\ calls.start \in 1 .. 3
               /\ Len(log) = calls.start
               /\ Succeeded(log[Len(log)])
               /\ userId # "" /\ sessionToken # ""
        /\ ~result.ok => result.error.kind # "none"
        /\ result.ok => result.error = NoMsg /\ alerts = <<>>

C8_Witness ==
    /\ pc = "done"
    /\ result.ok
    /\ sendAlerts
    /\ calls.start = 3

\* the start_session call failed on each of its 3 attempts
StartExhausted ==
    /\ pc = "done"
    /\ calls.start = 3
    /\ Len(log) = 3
    /\ AllFailed

\* C9: if start_session fails on all 3 attempts the runner has waited exactly
\* twice for that call (2000 ms, 4000 ms), has sent exactly 1 alert and
\* returns ok:false.
C9_ExhaustedStartAlertsOnce ==
    StartExhausted =>
        /\ waits = <<2000, 4000>>
        /\ Len(alerts) = 1
        /\ ~result.ok

\* C9 amended: ... has sent exactly 1 alert when alerts are enabled (the
\* scheduled path) and none when they are disabled (POST /charge) ...
C9_ExhaustedStartAlertsIfEnabled ==
    StartExhausted =>
        /\ waits = <<2000, 4000>>
        /\ Len(alerts) = (IF entry = "scheduled" THEN 1 ELSE 0)
        /\ ~result.ok

C9_Witness ==
    /\ StartExhausted
    /\ entry = "scheduled"
    /\ Len(alerts) = 1
    /\ log[3].threw

\* C10: authentication succeeding on its first attempt and start_session
\* failing once and then succeeding on its 2nd attempt gives exactly 1 wait
\* (2000 ms), no alert and ok:true.
C10_SecondAttemptSucceeds ==
    (/\ pc = "done"
     /\ authDone.calls = 1 /\ authDone.ok
     /\ calls.start = 2
     /\ Len(log) = 2 /\ Failed(log[1]) /\ Succeeded(log[2])) =>
        /\ authDone.waits = 0
        /\ waits = <<2000>>
        /\ alerts = <<>>
        /\ result = ResultOk

C10_Witness ==
    /\ pc = "done"
    /\ calls = [auth |-> 1, start |-> 2, list |-> 0]
    /\ Failed(log[1]) /\ Succeeded(log[2])
    /\ result.ok

AuthKinds == {"Auth missing user_id or session token", "Auth error"}

StartKinds == {"Start session failed", "Start session error"}

\* performChargeFlow has ended with a failure result
FlowFailed == pc = "done" /\ ran /\ ~result.ok

\* C11: every failed invocation of the charge flow sends exactly one alert,
\* never more than one and never one for a single failed attempt.
C11_EveryFailureAlertsOnce ==
    /\ Len(alerts) <= 1
    /\ alerts # <<>> => pc = "done" /\ Completed
    /\ FlowFailed => Len(alerts) = 1

\* C11 amended: ... exactly one alert when alerts are enabled (the scheduled
\* path) and none when they are disabled (POST /charge) ...
C11_FailureAlertsOnceIfEnabled ==
    /\ Len(alerts) <= 1
    /\ alerts # <<>> => pc = "done" /\ Completed
    /\ FlowFailed => Len(alerts) = (IF sendAlerts THEN 1 ELSE 0)
    /\ sendAlerts <=> (ran /\ entry = "scheduled")

C11_Witness ==
    /\ FlowFailed
    /\ entry = "scheduled"
    /\ authDone.calls = 3
    /\ calls.start = 3
    /\ Len(alerts) = 1

\* C12: an alert is sent only when the start_session step has failed after
\* exhausting its retries; a failure of the authentication step sends none.
C12_AlertOnlyOnStartFailure ==
    alerts # <<>> => StartExhausted

\* C12 amended: an alert is sent only when, with alerts enabled, a step has
\* failed for good: the start_session step after exhausting its retries, or
\* the authentication step (transport errors on all attempts, an unparsable
\* body or missing fields) before any start_session request.
C12_AlertOnStepFailure ==
    /\ alerts # <<>> =>
           /\ sendAlerts
           /\ FlowFailed
           /\ \/ alerts[1].body.kind \in StartKinds /\ StartExhausted
              \/ alerts[1].body.kind \in AuthKinds /\ calls.start = 0
    /\ (FlowFailed /\ sendAlerts /\ calls.start = 0) =>
           /\ Len(alerts) = 1
           /\ alerts[1].body.kind \in AuthKinds

C12_Witness ==
    /\ FlowFailed
    /\ calls = [auth |-> 1, start |-> 0, list |-> 0]
    /\ Len(alerts) = 1
    /\ alerts[1].body = MsgAuthMissing(BodyNoToken)

\* C13: a mail request that throws or is answered with a non-success status
\* leaves the result of the invocation as it was computed, raises nothing out
\* of sendAlert or performChargeFlow, and is not repeated.
C13_AlertFailureIsSwallowed ==
    alerts # <<>> =>
        /\ Len(alerts) = 1
        /\ ~escaped
        /\ pc = "done"
        /\ result = ResultFail(alerts[1].body)
        /\ alerts[1].body.kind \in AuthKinds \cup StartKinds

C13_Witness ==
    /\ pc = "done"
    /\ Len(alerts) = 1
    /\ alerts[1].outcome = "threw"
    /\ result = ResultFail(alerts[1].body)

\* C14: whatever the vendor does on the two calls, performChargeFlow ends by
\* returning an ActionResult (ok, or not ok with an error): no exception
\* reaches the scheduled handler or the fetch handler.
C14_NothingEscapes ==
    /\ ~escaped
    /\ (pc = "done" /\ ran) =>
           /\ result.ok \/ result.error.kind \in AuthKinds \cup StartKinds
           /\ entry = "charge" => http = ResultResponse(result)

C14_Witness ==
    /\ pc = "done"
    /\ entry = "charge"
    /\ authDone.ok
    /\ ~ret.body.json
    /\ result = ResultFail(MsgAuthError(JsonError))

Range(q) == {q[i] : i \in 1 .. Len(q)}

\* the values that must stay secret in the current invocation
Secrets ==
    {CP_USERNAME, CP_PASSWORD} \cup (IF sessionToken = "" THEN {} ELSE {sessionToken})

Leaks(m) == Range(ErrorText(m)) \cap Secrets # {}

\* C15: neither the credentials nor the session token obtained from
\* authentication appears in the error string performChargeFlow returns or in
\* the body of an alert it sends, whatever the vendor answers.
C15_NoSecretInErrors ==
    /\ ~Leaks(result.error)
    /\ \A i \in 1 .. Len(alerts) : ~Leaks(alerts[i].body)

\* the authentication failure "missing user id or session token" has surfaced
MissingSurfaced ==
    /\ pc \in {"alert", "done"}
    /\ Surfaced.kind = "Auth missing user_id or session token"

\* C16: an auth response that lacks the user id or the session token is
\* retried like a transport error: the failure surfaces only after 3 attempts
\* and the 2000 ms and 4000 ms waits.
C16_MissingFieldsRetried ==
    MissingSurfaced =>
        /\ calls.auth = 3
        /\ waits = <<2000, 4000>>

\* C16 amended: such a response is retried only when it comes with a
\* non-success status; when it comes with a success status it ends the
\* authenticate call at once and the failure surfaces without another attempt.
C16_MissingFieldsRetriedIfNotOk ==
    MissingSurfaced =>
        /\ authDone.returned
        /\ calls = [auth |-> Len(log), start |-> 0, list |-> 0]
        /\ \A i \in 1 .. Len(log) - 1 : Failed(log[i])
        /\ Len(waits) = Len(log) - 1
        /\ Failed(log[Len(log)]) => Len(log) = 3 /\ waits = <<2000, 4000>>
        /\ AuthIncomplete(UserIdOf(ret.body), TokenOf(ret.body))

C16_Witness ==
    /\ MissingSurfaced
    /\ pc = "done"
    /\ calls.auth = 1
    /\ Succeeded(log[1])
    /\ waits = <<>>

\* authentication succeeded and start_session was answered with the same
\* non-success status on each of its 3 attempts
StartRefused ==
    /\ pc = "done"
    /\ authDone.ok
    /\ calls.start = 3
    /\ Len(log) = 3
    /\ \A i \in 1 .. 3 : ~log[i].threw /\ log[i].res.status = log[1].res.status
    /\ log[1].res.status \in FailStatuses

\* the words w occur in the text t, in a row
Contains(t, w) ==
    \E k \in 1 .. Len(t) - Len(w) + 1 : SubSeq(t, k, k + Len(w) - 1) = w

\* what C17 says of the returned result
RefusalReported ==
    /\ ~result.ok
    /\ ToString(log[3].res.status) \in Range(ErrorText(result.error))
    /\ Contains(ErrorText(result.error), log[3].res.body.text)

\* the one alert C17 describes
RefusalAlert ==
    /\ Len(alerts) = 1
    /\ alerts[1].to = AlertEmail
    /\ alerts[1].subject = AlertSubject
    /\ alerts[1].body = result.error

\* C17: then the result is ok:false with an error string that contains the
\* status and the response body, and exactly one alert is sent, to
\* ALERT_EMAIL, with the urgent subject and that error string as its body.
C17_RefusalReportedAndAlerted ==
    StartRefused => RefusalReported /\ RefusalAlert

\* C17 amended: ... and exactly one such alert is sent when the flow was
\* invoked by the scheduled handler, none when invoked by POST /charge.
C17_RefusalReportedAlertedIfEnabled ==
    StartRefused =>
        /\ RefusalReported
        /\ IF entry = "scheduled" THEN RefusalAlert ELSE alerts = <<>>

C17_Witness ==
    /\ StartRefused
    /\ entry = "scheduled"
    /\ log[3].res.status = 500
    /\ log[3].res.body = BodyText(<<"B0">>)
    /\ RefusalAlert

\* C18: POST /charge answers with the result of the charge flow as its
\* body, with status 200 exactly when the result is ok and 500 exactly when it
\* is not; the flow runs at whatever local hour the request arrives (a
\* station id being configured, see C19).
C18_ChargeReturnsResult ==
    entry = "charge" =>
        /\ stationId # "" => ran
        /\ (pc = "done" /\ ran) =>
               /\ http.kind = "result"
               /\ http.result = result
               /\ http.status = 200 <=> result.ok
               /\ http.status = 500 <=> ~result.ok

C18_Witness ==
    /\ entry = "charge"
    /\ pc = "done"
    /\ CivilHour(day, now) = 7
    /\ result.ok
    /\ http.status = 200

\* C19: with CP_STATION_ID empty POST /charge answers 400 with an error and
\* makes no vendor request and sends no alert; the scheduled handler makes no
\* such check and runs the flow at hour 6 all the same.
C19_ChargeNeedsStation ==
    /\ (entry = "charge" /\ stationId = "") =>
           /\ pc = "done"
           /\ ~ran
           /\ http = ErrorResponse(400, "CP_STATION_ID not set")
           /\ calls = NoCalls
           /\ log = <<>>
           /\ alerts = <<>>
    /\ (entry = "scheduled" /\ CivilHour(day, now) = 6) => ran

C19_Witness ==
    /\ entry = "charge"
    /\ stationId = ""
    /\ pc = "done"
    /\ http.status = 400

(***************************************************************************)
(* C20                                                                     *)
(***************************************************************************)
\* the second run of a pair has ended
PairDone == trial.mode = "replay" /\ entry = "charge" /\ pc = "done"

\* the requests the first run of the pair issued, in order
ScriptRequests == [k \in 1 .. Len(trial.script) |-> trial.script[k].req]

\* the second run issued the requests of the first and returned its value
SameRun == trial.seen = ScriptRequests /\ ran /\ result = trial.prev

\* while the second run is about to issue a request, the first run issued
\* that very request at that point
PairInStep ==
    (trial.mode = "replay" /\ InFetch) =>
        /\ Len(trial.seen) < Len(trial.script)
        /\ trial.script[Len(trial.seen) + 1].req =
               IF pc = "auth_fetch"
                 THEN AuthRequest
                 ELSE StartRequest(userId, stationId, sessionToken)

\* C20 as stated: whatever the configuration, POST /charge served the
\* vendor responses of a scheduled run at local hour 6 issues the same
\* vendor requests in the same order and computes the same ActionResult
C20_SameLogicAnyConfig == PairInStep /\ (PairDone => SameRun)

\* C20, amended: when CP_STATION_ID is set, POST /charge served the vendor
\* responses of a scheduled run at local hour 6 issues the same vendor
\* requests (authenticate, then start_session, with the same retries) in the
\* same order and computes the same ActionResult
C20_SameLogicIfStationSet ==
    /\ PairInStep
    /\ (PairDone /\ stationId # "") => SameRun

\* a pair with a retry of each request, ending in success
C20_Witness ==
    /\ PairDone /\ stationId # ""
    /\ Len(trial.script) = 4
    /\ trial.script[2].req = AuthRequest
    /\ trial.script[3].req.url = StartRequest("", "", "").url
    /\ SameRun /\ result.ok

(***************************************************************************)
(* C30                                                                     *)
(***************************************************************************)
\* the failure branch an invocation ended in, from what the vendor did
BranchOf(m) ==
    CASE m.kind = "Auth error" /\ m.err.kind # "syntax" -> "auth transport error"
      [] m.kind = "Auth error" /\ m.err.kind = "syntax" -> "auth unparsable body"
      [] m.kind = "Auth missing user_id or session token" -> "auth missing fields"
      [] m.kind = "Start session failed" -> "start_session non-success status"
      [] m.kind = "Start session error" -> "start_session transport error"
      [] OTHER -> "none"

\* C30: POST /charge runs the flow with sendAlerts = false and sends no
\* alert on any outcome; the scheduled handler runs it with sendAlerts =
\* true and on each failure branch (auth transport error, auth missing
\* fields, start_session non-success status, start_session transport error)
\* sends an alert carrying that branch's error
C30_AlertsByPath ==
    /\ (entry = "charge") => (~sendAlerts /\ alerts = <<>>)
    /\ (entry = "scheduled" /\ ran) => sendAlerts
    /\ (entry = "scheduled" /\ FlowFailed) =>
           /\ BranchOf(result.error) # "none"
           /\ Len(alerts) = 1
           /\ alerts[1].body = result.error

C30_Witness ==
    /\ entry = "scheduled" /\ FlowFailed
    /\ BranchOf(result.error) = "auth transport error"
    /\ calls.auth = MAX_ATTEMPTS
    /\ Len(alerts) = 1

(***************************************************************************)
(* C27                                                                     *)
(***************************************************************************)
\* a call of fetchWithRetry has used up its attempts
RetryExhausted == Completed /\ Len(log) = MAX_ATTEMPTS /\ AllFailed

InFlow == ran /\ pc \notin {"idle", "done"}

\* the start_session part of the flow has been entered
InStart == pc \in {"start_fetch", "start_wait"} \/ calls.start > 0

\* the backoff delays the invocation has awaited so far
TotalWaits == IF InStart THEN authDone.waits + Len(waits) ELSE Len(waits)

FlowBounds ==
    /\ calls.auth <= 3
    /\ calls.start <= 3
    /\ TotalWaits <= 4
    /\ Len(alerts) <= 1
    /\ (pc = "done" /\ ran) =>
           /\ ~escaped
           /\ log # <<>>
           /\ Succeeded(log[Len(log)]) \/ Len(log) = 3

\* C26: if every request completes, every invocation of performChargeFlow
\* ends with a result; a retry cycle runs to success or exhaustion, and an
\* invocation issues at most 6 vendor requests (3 authenticate and 3
\* start_session), awaits at most 4 backoff delays and sends at most 1 alert
C26_TerminatesWithinBounds ==
    /\ []FlowBounds
    /\ InFlow ~> (pc = "done" /\ ran)

C26_Witness ==
    /\ pc = "done" /\ ran
    /\ calls.auth = 3 /\ calls.start = 3
    /\ TotalWaits = 4
    /\ Len(alerts) = 1

(***************************************************************************)
(* C21, C22, C23, C29: station discovery                                   *)
(***************************************************************************)
\* the route has answered
SetupDone == entry = "setup" /\ pc = "done"

\* the get_home_chargers call has handed a response to the route: ret
ListReturned ==
    /\ SetupDone
    /\ calls.list > 0
    /\ \E i \in 1 .. Len(log) : ~log[i].threw

\* C21: a discovery whose list-chargers call obtains zero stations (data
\* absent or empty) answers 404 with the error 'No home chargers found';
\* a 200 answer never carries an empty station list
C21_NoChargersIsError ==
    /\ (SetupDone /\ http.status = 200) => http.chargers # <<>>
    /\ (ListReturned /\ ret.body.json /\ DataOf(ret.body) = <<>>) =>
           /\ http.status = 404
           /\ http.error = "No home chargers found"
           /\ http.chargers = <<>>

C21_Witness ==
    /\ ListReturned
    /\ Ok(ret)
    /\ ret.body = ListBody(<<>>, <<"data">>)
    /\ http.status = 404

\* every step of the discovery succeeded: the authenticate call got a
\* success response with both fields, and the list-chargers call got a
\* success response whose body parses and holds at least one station
EveryStepSucceeded ==
    /\ ListReturned
    /\ userId # "" /\ sessionToken # ""
    /\ Ok(ret)
    /\ ret.body.json
    /\ DataOf(ret.body) # <<>>

\* C22: POST /setup answers 200 with the station list only when every step
\* succeeded; when any step fails (among them a list-chargers call whose
\* retries end with a non-success status) it answers an error JSON with a
\* non-200 status
C22_OkOnlyIfEveryStepSucceeded ==
    SetupDone =>
        /\ http.status = 200 <=> EveryStepSucceeded
        /\ http.status = 200 => http.chargers = StationList(DataOf(ret.body))
        /\ http.status # 200 => http.error # "" /\ http.chargers = <<>>

\* C23: POST /setup sends no alert, requests start_session never, does not
\* run performChargeFlow and is served at any local hour; it requests
\* authenticate, and list-chargers only after an authenticate that returned
\* a success response with a user id and a session token
C23_SetupOnlyAuthAndList ==
    entry = "setup" =>
        /\ alerts = <<>> /\ pending = NoMsg
        /\ calls.start = 0
        /\ ~ran /\ ~sendAlerts
        /\ pc = "done" => calls.auth > 0
        /\ calls.auth <= 3 /\ calls.list <= 3
        /\ (pc = "setup_list_fetch" /\ log = <<>>) => Ok(ret) /\ ErrorOf(ret.body) = ""
        /\ (calls.list > 0 \/ pc = "setup_list_fetch") =>
               /\ userId # "" /\ sessionToken # ""
               /\ calls.auth > 0

C23_Witness ==
    /\ SetupDone
    /\ CivilHour(day, now) = 5
    /\ calls.auth = 2 /\ calls.list = 3
    /\ http.status = 200

\* C29: no response of POST /setup carries the session token or the
\* configured credentials, on any path
C29_NoSecretInSetupResponses ==
    entry = "setup" => Range(http.words) \cap Secrets = {}

(***************************************************************************)
(* C28                                                                     *)
(***************************************************************************)
\* the first non-empty text of a list of candidates, "" if there is none
RECURSIVE FirstNonEmpty(_)
FirstNonEmpty(q) ==
    IF q = <<>> THEN ""
    ELSE IF Head(q) # "" THEN Head(q)
    ELSE FirstNonEmpty(Tail(q))

\* an absent number has no text
NumberText(n) == IF n = 0 THEN "" ELSE ToString(n)

UserCandidates(b) == <<b.userid, NumberText(b.uid), NumberText(b.uuid)>>

TokenCandidates(b) == <<b.coulomb, b.access, b.auth>>

AllEmpty(q) == \A i \in 1 .. Len(q) : q[i] = ""

\* the auth response has been parsed
Parsed == pc \notin {"idle", "auth_parse", "setup_auth_read", "auth_fetch", "setup_auth_fetch"}

\* C28: the user id is the first non-empty of userid, user.id, user.user_id
\* and the session token the first non-empty of sessionStorage.coulomb_sess,
\* access_token, auth_token; a field is reported missing only when all of
\* its candidates are absent or empty (POST /setup answers its 401 'Auth
\* failed or missing session token' also for a body with an error field)
C28_FirstNonEmptyLookup ==
    Parsed =>
        /\ userId = FirstNonEmpty(UserCandidates(ret.body))
        /\ sessionToken = FirstNonEmpty(TokenCandidates(ret.body))
        /\ entry \in {"scheduled", "charge"} =>
               (Surfaced.kind = "Auth missing user_id or session token"
                  <=> (AllEmpty(UserCandidates(ret.body)) \/ AllEmpty(TokenCandidates(ret.body))))
        /\ entry = "setup" =>
               /\ (http.status = 401 /\ ErrorOf(ret.body) = "")
                      => AllEmpty(TokenCandidates(ret.body))
               /\ http.error = "Could not find user_id in login response"
                      => AllEmpty(UserCandidates(ret.body))
               /\ pc = "setup_list_fetch" <=>
                      /\ ~AllEmpty(UserCandidates(ret.body))
                      /\ ~AllEmpty(TokenCandidates(ret.body))
                      /\ ErrorOf(ret.body) = ""

\* user.user_id and auth_token are the only candidates present, and are taken
C28_Witness ==
    /\ Parsed
    /\ ret.body.userid = "" /\ ret.body.uid = 0 /\ ret.body.uuid = 9
    /\ ret.body.coulomb = "" /\ ret.body.access = "" /\ ret.body.auth = "T3"
    /\ userId = "9" /\ sessionToken = "T3"
    /\ pc \in {"start_fetch", "setup_list_fetch"}

(***************************************************************************)
(* C25                                                                     *)
(***************************************************************************)
\* C25: the gate keeps no memory and does not deduplicate: a scheduled
\* invocation that observes local hour 6 runs the charge flow whatever ran
\* earlier the same day, also after a run whose start_session succeeded
C25_GateDoesNotDeduplicate ==
    (entry = "scheduled" /\ CivilHour(day, now) = 6) =>
        /\ ran
        /\ sendAlerts
        /\ pc = "done" => calls.auth > 0
        /\ (pc = "done" /\ result.ok) => calls.start > 0

\* the second successful run of a day
C25_Witness ==
    /\ dayRuns.oks = <<TRUE>>
    /\ entry = "scheduled" /\ CivilHour(day, now) = 6
    /\ pc = "done" /\ result.ok
    /\ calls.start > 0 /\ Succeeded(log[Len(log)])

(***************************************************************************)
(* C24                                                                     *)
(***************************************************************************)
\* the auth responses the invocation with context c received before its
\* k-th request, by their place in its traffic
AuthResponsesBefore(c, k) ==
    {j \in 1 .. k - 1 :
        c.trial.script[j].req = AuthRequest /\ ~c.trial.script[j].outcome.threw}

\* every start_session request of c carries the station of the deployment
\* and the user id and session token of the auth response c received last
OwnCredentials(c) ==
    \A k \in 1 .. Len(c.trial.script) :
        LET x == c.trial.script[k]
            got == AuthResponsesBefore(c, k)
        IN  x.req # AuthRequest =>
                /\ got # {}
                /\ LET j == CHOOSE i \in got : \A l \in got : l <= i
                       b == c.trial.script[j].outcome.res.body
                   IN  x.req = StartRequest(UserIdOf(b), stationId, TokenOf(b))

\* the vendor responses c received, in order, and the requests it issued
ResponsesOf(c) == [k \in 1 .. Len(c.trial.script) |-> c.trial.script[k].outcome]

RequestsOf(c) == [k \in 1 .. Len(c.trial.script) |-> c.trial.script[k].req]

AlertBodies(c) == [k \in 1 .. Len(c.alerts) |-> c.alerts[k].body]

FlowEnded(c) == c.pc = "done" /\ c.ran

\* what c returned and mailed is what it computed itself
OwnOutcome(c) ==
    /\ Len(c.trial.script) = c.calls.auth + c.calls.start
    /\ c.alerts # <<>> => c.sendAlerts
    /\ (FlowEnded(c) /\ c.alerts # <<>>) => c.result = ResultFail(c.alerts[1].body)
    /\ (FlowEnded(c) /\ c.result.ok) =>
           /\ c.trial.script # <<>>
           /\ Succeeded(c.trial.script[Len(c.trial.script)].outcome)
           /\ c.trial.script[Len(c.trial.script)].req # AuthRequest

\* two invocations that received the same responses issued the same
\* requests, returned the same result and, if both alert, mailed the same
SameResponsesSameOutcome(c, d) ==
    (FlowEnded(c) /\ FlowEnded(d) /\ ResponsesOf(c) = ResponsesOf(d)) =>
        /\ RequestsOf(c) = RequestsOf(d)
        /\ c.result = d.result
        /\ c.sendAlerts = d.sendAlerts => AlertBodies(c) = AlertBodies(d)

\* C24: under every interleaving of two overlapping invocations, each one's
\* start_session request carries the user id and the session token of its
\* own auth response, and each one's result and alert are determined by the
\* vendor responses it received itself
C24_InvocationsIndependent ==
    /\ OwnCredentials(Context) /\ OwnCredentials(other)
    /\ OwnOutcome(Context) /\ OwnOutcome(other)
    /\ SameResponsesSameOutcome(Context, other)

\* both invocations are between two start_session attempts, one
\* authenticated as U1, the other as U2
C24_Witness ==
    /\ entry = "charge" /\ pc = "start_wait"
    /\ userId = "U1" /\ sessionToken = "T1"
    /\ trial.script[Len(trial.script)].req = StartRequest("U1", stationId, "T1")
    /\ other.entry = "scheduled" /\ other.pc = "start_wait"
    /\ other.userId = "U2"
    /\ other.trial.script[Len(other.trial.script)].req = StartRequest("U2", stationId, "T2")

\* the requests the fetch handler routes to a flow (lines 173 and 187)
Routed(req) == req.method = "POST" /\ req.path \in {"/charge", "/setup"}

\* the handler has answered 404 with the error JSON and has done nothing else
NotFoundOnly ==
    /\ http = ErrorResponse(404, "Not found")
    /\ pc = "done"
    /\ ~ran
    /\ calls = NoCalls
    /\ log = <<>>
    /\ alerts = <<>>

\* C38: the fetch handler triggers vendor traffic only for POST /charge and
\* POST /setup: the step that handles any other request (another path, or
\* another method on /charge or /setup) ends the invocation with HTTP 404 and
\* the error JSON, and an invocation so answered has issued no vendor request
\* and no alert; vendor requests and alerts occur only in invocations of the
\* scheduled handler, POST /charge and POST /setup
C38_OnlyRoutedRequestsReachVendor ==
    /\ [][\A req \in Requests, h \in RequestHours :
            (Fetch(req, h) /\ ~Routed(req)) => (entry' = "other" /\ NotFoundOnly')]_vars
    /\ [](entry = "other" => NotFoundOnly)
    /\ []((calls # NoCalls \/ alerts # <<>>) => entry \in {"scheduled", "charge", "setup"})

\* GET /charge has been answered 404 without vendor traffic
C38_Witness ==
    /\ entry = "other"
    /\ http.status = 404 /\ http.kind = "error" /\ http.error = "Not found"
    /\ calls = NoCalls /\ alerts = <<>>
    /\ pc = "done"

(***************************************************************************)
(* The dashboard's authentication module                                   *)
(***************************************************************************)
\* the last step was the arrival of a response or a parsed body at a call
\* of checkGitHubAuth
Arrival == browser.last.op \in {"userResponse", "userJson", "collabResponse"}

\* C31: under every interleaving of loginWithPAT, logoutGitHub, initAuth and
\* the completions of the calls of checkGitHubAuth in flight,
\* window.isContributor is true only if window.authToken is non-null and a
\* token is stored in localStorage
C31_ContributorOnlyWithToken ==
    browser.isContributor => (~Falsy(browser.authToken) /\ ~Falsy(browser.storage))

\* C32: a response that arrives for a call of checkGitHubAuth started for a
\* token that loginWithPAT has since replaced by another one changes neither
\* localStorage nor window.authToken, window.isContributor or
\* window.githubUsername
C32_SupersededResultIgnored ==
    (/\ Arrival
     /\ browser.last.check.superseded
     /\ ~Falsy(browser.last.before.authToken)
     /\ browser.last.before.authToken # browser.last.check.started)
        => Snapshot(browser) = browser.last.before

C34_InvalidClearsThrowKeeps ==
    /\ (browser.last.op = "userResponse" /\ browser.last.check.pc = "user_fetch"
          /\ ~browser.last.check.userOk /\ browser.last.path # "error") =>
          /\ browser.storage = Null
          /\ browser.authToken = Null
          /\ browser.githubUsername = Null
          /\ ~browser.isContributor
          /\ browser.last.resolved /\ ~browser.last.value
    /\ (Arrival /\ browser.last.path = "error") =>
          /\ browser.storage = browser.last.before.storage
          /\ browser.authToken = browser.last.before.authToken
          /\ browser.last.resolved /\ ~browser.last.value

\* the user request of a call started for a stored token A, by a page that
\* showed alice as contributor, was answered with a non-success status
C34_Witness ==
    /\ browser.last.op = "userResponse" /\ browser.last.path = "invalid"
    /\ browser.last.before.storage = Str(<<"A">>)
    /\ browser.last.before.authToken = Str(<<"A">>)
    /\ browser.last.before.isContributor
    /\ browser.last.before.githubUsername = Str(<<"alice">>)
    /\ browser.storage = Null

\* C35: after logoutGitHub returns, whatever the state before, no token is in
\* localStorage, window.authToken and window.githubUsername are null and
\* window.isContributor is false
C35_LogoutClears ==
    browser.last.op = "logoutGitHub" =>
        /\ browser.storage = Null
        /\ browser.authToken = Null
        /\ browser.githubUsername = Null
        /\ ~browser.isContributor

\* logoutGitHub has returned on a page that held token A and showed alice as
\* contributor, while a call of checkGitHubAuth is in flight
C35_Witness ==
    /\ browser.last.op = "logoutGitHub"
    /\ browser.last.before.storage = Str(<<"A">>)
    /\ browser.last.before.authToken = Str(<<"A">>)
    /\ browser.last.before.isContributor
    /\ browser.last.before.githubUsername = Str(<<"alice">>)
    /\ InFlight(browser) # {}
    /\ browser.storage = Null /\ browser.authToken = Null

\* C36: whenever a call of checkGitHubAuth resolves to false,
\* window.isContributor is false afterwards, whichever branch it took
C36_FalseMeansNotContributor ==
    (browser.last.resolved /\ ~browser.last.value) => ~browser.isContributor

\* C37 as stated: whenever no call is in flight, window.authToken equals the
\* item stored in localStorage, or both are absent
C37_TokenEqualsStored ==
    InFlight(browser) = {} => browser.authToken = browser.storage

\* C37: once window.authToken has been assigned by initAuth, loginWithPAT,
\* logoutGitHub or checkGitHubAuth, it equals the item stored in
\* localStorage, or both are absent; before that it is null, whatever a
\* previous visit left in localStorage; and no step changes one of the two
\* to something else than the other
C37_TokenEqualsStoredOnceAssigned ==
    /\ browser.assigned => browser.authToken = browser.storage
    /\ ~browser.assigned =>
          /\ browser.authToken = Null
          /\ browser.storage \in Saved
    /\ (browser.storage # browser.last.before.storage
          \/ browser.authToken # browser.last.before.authToken) =>
          browser.authToken = browser.storage

\* token B has been stored by loginWithPAT over token A, a call for A being
\* in flight
C37_Witness ==
    /\ browser.last.op = "loginWithPAT" /\ browser.last.path = "started"
    /\ browser.last.before.storage = Str(<<"A">>)
    /\ browser.storage = Str(<<"B">>) /\ browser.authToken = Str(<<"B">>)
    /\ \E i \in CheckIds : browser.checks[i].pc # "none" /\ browser.checks[i].superseded

\* the text is empty or consists of whitespace
Blank(t) == \A k \in DOMAIN t : t[k] \in Whitespace

\* the last step left the globals and localStorage alone, sent no request
\* and started no call of checkGitHubAuth
NothingDone ==
    /\ Snapshot(browser) = browser.last.before
    /\ browser.last.check = NoCheck

LoggedOutUI == browser.container => browser.ui = "form"

====
